---- MODULE Spec2Model ----
(***************************************************************************)
(* A model of the Verus function finder / verification-output analyzer:    *)
(*   find_verus_functions_syn.py  (CompilationErrorParser, VerificationParser, *)
(*                                 VerusAnalyzer)                          *)
(*   find_verus_functions.py      (RustFunctionFinder: the regex scanner)  *)
(*                                                                         *)
(* Diagnostic text is a sequence of lines.  A line is its concrete text (a *)
(* string); what each regular expression of the source finds in a line is  *)
(* tabulated per text below.  Paths are sequences of one-character strings,*)
(* so that suffix / substring / basename tests are computed, not assumed.  *)
(* Source text is a sequence of lexical tokens.                            *)
(***************************************************************************)
EXTENDS Integers, Sequences, FiniteSets, TLC

VARIABLES
    pc,           \* which operation has run: "input" | "analyzed" | "found" | "scanned"
    output,       \* analyze_output: output_content, as its lines (split on newline)
    exit_code,    \* analyze_output: exit_code argument (None or an integer)
    index,        \* the SourceIndex: sequence of [file, functions], in dict order
    filters,      \* analyze_output: [module, function] filter arguments
    report,       \* analyze_output: the returned report
    diag,         \* find_function_at_line: [file, line] arguments
    found,        \* find_function_at_line: [matching_file, function] result
    content,      \* RustFunctionFinder.analyze_file: the file's text, as tokens
    functions,    \* RustFunctionFinder.analyze_file: the returned list
    parser,       \* parse_compilation_output: [st, i, has_verification_results] of its main loop
    failures,     \* parse_verification_failures: the returned list
    scan,         \* extract_verus_blocks: [start, match, i, brace_count, blocks] of its loops
    source        \* find_all_functions: what lies at the path and how the finder meets it

vars ==
    <<pc, output, exit_code, index, filters, report, diag, found, content, functions,
      parser, failures, scan, source>>

\* Python's None, for optional strings / paths (which are never empty here)
\* and for optional integers (which are never negative here).
None == <<>>
NoneInt == -1
\* None for a function name; a name is never empty, and the code tests names by truth value
NoName == ""

----------------------------------------------------------------------------
(* Generic helpers *)

Max(a, b) == IF a >= b THEN a ELSE b

Min(a, b) == IF a <= b THEN a ELSE b

----------------------------------------------------------------------------
(* The diagnostic lines and what the patterns of the source find in them.  *)

SummaryLine == "verification results:: 3 verified, 1 errors"
\* (the crate name stands between backquotes in the text, written ' here)
CargoLine   == "error: could not compile 'foo'"
MemoryLine  == "memory allocation of 10 bytes failed"
ExitLine1   == "Verus command completed with exit code: 1"
ExitLine0   == "Verus command completed with exit code: 0"
ProcessLine == "process didn't exit successfully: rustc (exit status: 1)"
ErrorLine   == "error[E0308]: mismatched types"
VerifLine   == "error: postcondition not satisfied"
AssertLine  == "error: assertion failed"
CodedAssertLine == "error[E0999]: assertion failed"
WarnLine    == "warning: unused variable"
LocLine     == "  --> src/lib.rs:42:5"
LocLineLow  == "  --> src/lib.rs:7:1"
LocLineM    == "  --> src/m.rs:60:9"
BarLine     == "   |"
CausedLine  == "Caused by:"
BlankLine   == ""
NoteLine    == "note: verus has been running for 2 seconds"
TextLine    == "Compiling foo v0.1.0"
\* a source line of the excerpt, indented, ending in a colour reset sequence
\* (the escape character is written \x1b) and two blanks
AssertSrcLine == "    assert(x > 0);\\x1b[0m  "
\* a failure header as printed in colour
ColouredVerifLine == "\\x1b[1merror\\x1b[0m: postcondition not satisfied"
\* a failure header that holds two of the known phrases
TwoPhraseLine == "error: postcondition not satisfied, assertion failed"

\* str.strip()
strip(line) ==
    CASE line = LocLine    -> "--> src/lib.rs:42:5"
      [] line = LocLineLow -> "--> src/lib.rs:7:1"
      [] line = LocLineM   -> "--> src/m.rs:60:9"
      [] line = BarLine    -> "|"
      [] line = AssertSrcLine -> "assert(x > 0);\\x1b[0m"
      [] line = "    assert(x > 0);" -> "assert(x > 0);"
      [] OTHER             -> line

\* str.rstrip() alone: the colour sequences stay
CleanKeepsColour(line) ==
    CASE line = AssertSrcLine -> "    assert(x > 0);\\x1b[0m"
      [] OTHER -> line

\* re.sub(r'\x1b\[[0-9;]*m', '', line.rstrip())
clean(line) ==
    CASE line = AssertSrcLine -> "    assert(x > 0);"
      [] line = ColouredVerifLine -> VerifLine
      [] line = strip(AssertSrcLine) -> "assert(x > 0);"
      [] OTHER -> line

SrcLibRs == <<"s","r","c","/","l","i","b",".","r","s">>
SrcMRs   == <<"s","r","c","/","m",".","r","s">>

\* verification_results_pattern.search(line)
verification_results_pattern(line) == line = SummaryLine

\* cargo_error_pattern.search(line); group(1) is CargoCrate
cargo_error_pattern(line) == line = CargoLine

CargoCrate(line) == "foo"

\* memory_error_pattern.search(line)
memory_error_pattern(line) == line = MemoryLine

\* verus_command_exit_pattern.search(line); group(1) is VerusExitCode
verus_command_exit_pattern(line) == line \in {ExitLine1, ExitLine0}

VerusExitCode(line) == IF line = ExitLine0 THEN 0 ELSE 1

\* process_error_pattern.search(line); group(1) is ProcessDetail
process_error_pattern(line) == line = ProcessLine

ProcessDetail(line) == "rustc (exit status: 1)"

\* error_pattern.search(line) of CompilationErrorParser; group(1).strip() is ErrorMessage
error_pattern(line) ==
    line \in {CargoLine, ErrorLine, VerifLine, AssertLine, CodedAssertLine, TwoPhraseLine}

ErrorMessage(line) ==
    CASE line = CargoLine  -> "could not compile 'foo'"
      [] line = ErrorLine  -> "mismatched types"
      [] line = VerifLine  -> "postcondition not satisfied"
      [] line = AssertLine -> "assertion failed"
      [] line = CodedAssertLine -> "assertion failed"
      [] line = TwoPhraseLine -> "postcondition not satisfied, assertion failed"
      [] OTHER             -> ""

\* any(pattern.search(line) for pattern in self.verification_error_patterns)
verification_error_patterns(line) == line \in {VerifLine, AssertLine, TwoPhraseLine}

\* warning_pattern.search(line); group(1).strip() is WarningMessage
warning_pattern(line) == line = WarnLine

WarningMessage(line) == "unused variable"

\* file_location_pattern.search(line), and VerificationParser.error_pattern.search(line):
\* both find the same lines; groups 1, 2, 3 are LocFile, LocLineNo, LocColumn
file_location_pattern(line) ==
    line \in {LocLine, LocLineLow, LocLineM, strip(LocLine), strip(LocLineLow), strip(LocLineM)}

LocFile(line) == IF strip(line) = strip(LocLineM) THEN SrcMRs ELSE SrcLibRs

LocLineNo(line) ==
    CASE strip(line) = strip(LocLine)    -> 42
      [] strip(line) = strip(LocLineLow) -> 7
      [] OTHER                           -> 60

LocColumn(line) ==
    CASE strip(line) = strip(LocLine)    -> 5
      [] strip(line) = strip(LocLineLow) -> 1
      [] OTHER                           -> 9

\* exit_status_pattern.search(line); group(1) is ExitStatus
exit_status_pattern(line) == line = ProcessLine

ExitStatus(line) == "1"

\* the str.startswith / in tests of the continuation rule
IsContinuationStart(line) ==
    line \in {"|", CausedLine}

StartsWithCausedBy(line) == line = CausedLine

ContainsSignal(line) == FALSE

IsWarningContinuationStart(line) == line = "|"

----------------------------------------------------------------------------
(* CompilationErrorParser.parse_compilation_output                          *)
(* A record is [message, file, line, column, full_message]; message is the  *)
(* sequence of the pieces the code concatenates.  current_error and         *)
(* current_warning are sequences of length 0 (None) or 1.                   *)

NewRecord(message, line) ==
    [message |-> message, file |-> None, line |-> NoneInt, column |-> NoneInt,
     full_message |-> <<line>>]

\* the line is appended and the message is left as it was
ExtendTextOnly(rec, line, pieces) == [rec EXCEPT !.full_message = Append(@, line)]

\* current["full_message"].append(line); current["message"] += piece
Extend(rec, line, pieces) ==
    [rec EXCEPT !.full_message = Append(@, line), !.message = @ \o pieces]

\* the location is stored and the line is not appended
LocateWithoutText(rec, line) ==
    [rec EXCEPT !.file = LocFile(line), !.line = LocLineNo(line), !.column = LocColumn(line)]

\* current["file"], ["line"], ["column"] = ...; current["full_message"].append(line)
Locate(rec, line) ==
    [rec EXCEPT !.file = LocFile(line), !.line = LocLineNo(line),
                !.column = LocColumn(line), !.full_message = Append(@, line)]

ParserInit ==
    [errors |-> <<>>, warnings |-> <<>>, current_error |-> <<>>, current_warning |-> <<>>]

\* before extract_verus_blocks is called
NoScan == [start |-> 0, match |-> 0, i |-> 0, brace_count |-> 0, blocks |-> <<>>]

\* before parse_compilation_output is called
NoParser == [st |-> ParserInit, i |-> 0, has_verification_results |-> FALSE]

\* a first pass that looks at the first line only
FirstPassFirstLineOnly(lines) ==
    Len(lines) > 0 /\ verification_results_pattern(strip(lines[1]))

\* The first pass of parse_compilation_output: some stripped line is a summary
FirstPassHasResults(lines) ==
    \E i \in 1..Len(lines) : verification_results_pattern(strip(lines[i]))

\* a new error replaces the open one without the open one being appended
OpenErrorDropping(st, rec) == [st EXCEPT !.current_error = <<rec>>]

\* if current_error: errors.append(current_error); current_error = <new>
OpenError(st, rec) ==
    [st EXCEPT !.errors = @ \o st.current_error, !.current_error = <<rec>>]

\* if current_warning: warnings.append(current_warning); current_warning = <new>
OpenWarning(st, rec) ==
    [st EXCEPT !.warnings = @ \o st.current_warning, !.current_warning = <<rec>>]

\* a blank line that closes the open warning and leaves the error open
CloseWarningOnBlank(st) ==
    [st EXCEPT !.warnings = @ \o st.current_warning, !.current_warning = <<>>]

\* a blank line that closes the open error and leaves the warning open
CloseErrorOnBlank(st) ==
    [st EXCEPT !.errors = @ \o st.current_error, !.current_error = <<>>]

\* the branch of the blank line: both open records are appended and the slots
\* cleared (full_message is never empty, so both len(...) > 0 tests pass)
CloseOnBlank(st) ==
    [st EXCEPT !.errors = @ \o st.current_error, !.current_error = <<>>,
               !.warnings = @ \o st.current_warning, !.current_warning = <<>>]

\* a memory line met with no error open is added to the last error returned so far
ExtendLastClosed(st, rec) ==
    IF st.errors = <<>> THEN [st EXCEPT !.errors = Append(@, rec)]
    ELSE [st EXCEPT !.errors[Len(st.errors)] = Extend(@, rec.full_message[1], <<" - ">> \o rec.message)]

\* errors.append({...}) of the memory branch: a record that is never open
AppendStandalone(st, rec) == [st EXCEPT !.errors = Append(@, rec)]

\* One iteration of the main loop of parse_compilation_output
parse_line(st, raw, has_verification_results) ==
    LET line == strip(raw)
        open == st.current_error # <<>>
        wopen == st.current_warning # <<>>
        cur == st.current_error[1]
        wcur == st.current_warning[1]
    IN
    IF verification_results_pattern(line) THEN st
    ELSE IF cargo_error_pattern(line) THEN
        IF has_verification_results THEN st
        ELSE OpenError(st, NewRecord(<<"Compilation failed for crate: ", CargoCrate(line)>>, line))
    ELSE IF memory_error_pattern(line) THEN
        IF open
        THEN [st EXCEPT !.current_error = <<Extend(cur, line, <<" - ", line>>)>>]
        ELSE AppendStandalone(st, NewRecord(<<line>>, line))
    ELSE IF verus_command_exit_pattern(line) THEN
        IF open
        THEN [st EXCEPT !.current_error =
                 <<Extend(cur, line, <<" (exit code: ", ToString(VerusExitCode(line)), ")">>)>>]
        ELSE [st EXCEPT !.current_error =
                 <<NewRecord(<<"Verus command failed with exit code ",
                               ToString(VerusExitCode(line))>>, line)>>]
    ELSE IF process_error_pattern(line) THEN
        IF open
        THEN [st EXCEPT !.current_error = <<Extend(cur, line, <<" - ", ProcessDetail(line)>>)>>]
        ELSE [st EXCEPT !.current_error =
                 <<NewRecord(<<"Process execution failed: ", ProcessDetail(line)>>, line)>>]
    ELSE IF error_pattern(line) THEN
        IF verification_error_patterns(line) THEN st
        ELSE OpenError(st, NewRecord(<<ErrorMessage(line)>>, line))
    ELSE IF warning_pattern(line) THEN
        OpenWarning(st, NewRecord(<<WarningMessage(line)>>, line))
    ELSE IF file_location_pattern(line) THEN
        IF open THEN [st EXCEPT !.current_error = <<Locate(cur, line)>>]
        ELSE IF wopen THEN [st EXCEPT !.current_warning = <<Locate(wcur, line)>>]
        ELSE st
    ELSE IF open /\ (IsContinuationStart(line) \/ exit_status_pattern(line)) THEN
        [st EXCEPT !.current_error =
            <<Extend(cur, line,
                     IF StartsWithCausedBy(line) THEN <<" - ", line>>
                     ELSE IF ContainsSignal(line) THEN <<" - ", line>>
                     ELSE IF exit_status_pattern(line)
                          THEN <<" (exit status: ", ExitStatus(line), ")">>
                     ELSE <<>>)>>]
    ELSE IF wopen /\ IsWarningContinuationStart(line) THEN
        [st EXCEPT !.current_warning = <<[wcur EXCEPT !.full_message = Append(@, line)]>>]
    ELSE IF line = "" THEN CloseOnBlank(st)
    ELSE st

RECURSIVE parse_lines(_, _, _, _)
parse_lines(st, lines, i, has_verification_results) ==
    IF i > Len(lines) THEN st
    ELSE parse_lines(parse_line(st, lines[i], has_verification_results), lines, i + 1,
                     has_verification_results)

\* returns [errors, warnings]
parse_compilation_output(lines) ==
    LET st == parse_lines(ParserInit, lines, 1, FirstPassHasResults(lines))
    IN [errors |-> st.errors \o st.current_error,
        warnings |-> st.warnings \o st.current_warning]

\* One iteration of the main loop of parse_compilation_output of
\* find_verus_functions.py: no first pass, no summary or exit-code rule, no
\* test for verification-failure phrases, a fixed message for a process line
original_parse_line(st, raw) ==
    LET line == strip(raw)
        open == st.current_error # <<>>
        wopen == st.current_warning # <<>>
        cur == st.current_error[1]
        wcur == st.current_warning[1]
    IN
    IF cargo_error_pattern(line) THEN
        OpenError(st, NewRecord(<<"Compilation failed for crate: ", CargoCrate(line)>>, line))
    ELSE IF memory_error_pattern(line) THEN
        IF open
        THEN [st EXCEPT !.current_error = <<Extend(cur, line, <<" - ", line>>)>>]
        ELSE AppendStandalone(st, NewRecord(<<line>>, line))
    ELSE IF process_error_pattern(line) THEN
        IF open
        THEN [st EXCEPT !.current_error = <<Extend(cur, line, <<>>)>>]
        ELSE [st EXCEPT !.current_error = <<NewRecord(<<"Process execution failed">>, line)>>]
    ELSE IF error_pattern(line) THEN
        OpenError(st, NewRecord(<<ErrorMessage(line)>>, line))
    ELSE IF warning_pattern(line) THEN
        OpenWarning(st, NewRecord(<<WarningMessage(line)>>, line))
    ELSE IF file_location_pattern(line) THEN
        IF open THEN [st EXCEPT !.current_error = <<Locate(cur, line)>>]
        ELSE IF wopen THEN [st EXCEPT !.current_warning = <<Locate(wcur, line)>>]
        ELSE st
    ELSE IF open /\ IsContinuationStart(line) THEN
        [st EXCEPT !.current_error =
            <<Extend(cur, line,
                     IF StartsWithCausedBy(line) THEN <<" - ", line>>
                     ELSE IF ContainsSignal(line) THEN <<" - ", line>>
                     ELSE <<>>)>>]
    ELSE IF wopen /\ IsWarningContinuationStart(line) THEN
        [st EXCEPT !.current_warning = <<[wcur EXCEPT !.full_message = Append(@, line)]>>]
    ELSE IF line = "" THEN CloseOnBlank(st)
    ELSE st

RECURSIVE original_parse_lines(_, _, _)
original_parse_lines(st, lines, i) ==
    IF i > Len(lines) THEN st
    ELSE original_parse_lines(original_parse_line(st, lines[i]), lines, i + 1)

\* parse_compilation_output of find_verus_functions.py; returns [errors, warnings]
original_parse_compilation_output(lines) ==
    LET st == original_parse_lines(ParserInit, lines, 1)
    IN [errors |-> st.errors \o st.current_error,
        warnings |-> st.warnings \o st.current_warning]

\* CompilationErrorParser.has_verification_results: a search over the whole text.
\* No two lines of the alphabet join into a summary, so this is a search per line.
has_verification_results(lines) ==
    \E i \in 1..Len(lines) : verification_results_pattern(lines[i])

----------------------------------------------------------------------------
(* Paths: str(Path(p)), str.endswith, the in test, Path(p).name             *)

RECURSIVE SplitPath(_, _, _)
\* p.split("/"), as the sequence of its segments (empty ones included)
SplitPath(p, i, seg) ==
    IF i > Len(p) THEN <<seg>>
    ELSE IF p[i] = "/" THEN <<seg>> \o SplitPath(p, i + 1, <<>>)
    ELSE SplitPath(p, i + 1, Append(seg, p[i]))

\* the segments pathlib keeps: empty and "." segments are dropped
Parts(p) == SelectSeq(SplitPath(p, 1, <<>>), LAMBDA seg : seg # <<>> /\ seg # <<".">>)

RECURSIVE LeadingSlashes(_, _)
LeadingSlashes(p, i) ==
    IF i <= Len(p) /\ p[i] = "/" THEN 1 + LeadingSlashes(p, i + 1) ELSE 0

\* the root pathlib keeps: exactly two leading slashes stay two, any other number is one
Root(p) ==
    LET n == LeadingSlashes(p, 1)
    IN IF n = 0 THEN <<>> ELSE IF n = 2 THEN <<"/", "/">> ELSE <<"/">>

RECURSIVE JoinPath(_, _)
JoinPath(parts, i) ==
    IF i > Len(parts) THEN <<>>
    ELSE IF i = Len(parts) THEN parts[i]
    ELSE parts[i] \o <<"/">> \o JoinPath(parts, i + 1)

\* str(Path(p))
NormPath(p) ==
    LET r == Root(p) \o JoinPath(Parts(p), 1)
    IN IF r = <<>> THEN <<".">> ELSE r

\* Path(p).name
PathName(p) ==
    LET parts == Parts(p) IN IF parts = <<>> THEN <<>> ELSE parts[Len(parts)]

\* s.endswith(suffix)
EndsWith(s, suffix) ==
    /\ Len(suffix) <= Len(s)
    /\ SubSeq(s, Len(s) - Len(suffix) + 1, Len(s)) = suffix

\* sub in s
Contains(s, sub) ==
    \E i \in 1..(Len(s) - Len(sub) + 1) : SubSeq(s, i, i + Len(sub) - 1) = sub

----------------------------------------------------------------------------
(* VerificationParser.find_function_at_line                                 *)
(* The index is a sequence of [file, functions] in the dict's order;        *)
(* functions is a sequence of <<name, line>>.                               *)

\* the tests made on one file_key, in the order of the loop body
KeyMatches(file_path, file_key) ==
    LET a == NormPath(file_path)
        b == NormPath(file_key)
    IN \/ a = b
       \/ EndsWith(a, b) \/ EndsWith(b, a)
       \/ Contains(b, a) \/ Contains(a, b)
       \/ PathName(file_path) = PathName(file_key)

RECURSIVE MatchingFileFrom(_, _, _)
\* the for loop over all_functions_with_lines.keys(): the position of the first
\* key that passes any of the tests (break), 0 for matching_file = None
MatchingFileFrom(file_path, all_functions_with_lines, k) ==
    IF k > Len(all_functions_with_lines) THEN 0
    ELSE IF KeyMatches(file_path, all_functions_with_lines[k].file) THEN k
    ELSE MatchingFileFrom(file_path, all_functions_with_lines, k + 1)

MatchingFile(file_path, all_functions_with_lines) ==
    MatchingFileFrom(file_path, all_functions_with_lines, 1)

RECURSIVE ClosestFrom(_, _, _, _, _)
\* the for loop over functions_in_file; returns closest_function (None if unset)
ClosestFrom(functions_in_file, line_number, i, closest_function, closest_line) ==
    IF i > Len(functions_in_file) THEN closest_function
    ELSE LET func_name == functions_in_file[i][1]
             func_line == functions_in_file[i][2]
         IN IF func_line <= line_number /\ func_line > closest_line
            THEN ClosestFrom(functions_in_file, line_number, i + 1, func_name, func_line)
            ELSE ClosestFrom(functions_in_file, line_number, i + 1,
                             closest_function, closest_line)

RECURSIVE ClosestFromExclusive(_, _, _, _, _)
ClosestFromExclusive(functions_in_file, line_number, i, closest_function, closest_line) ==
    IF i > Len(functions_in_file) THEN closest_function
    ELSE LET func_name == functions_in_file[i][1]
             func_line == functions_in_file[i][2]
         IN IF func_line < line_number /\ func_line > closest_line
            THEN ClosestFromExclusive(functions_in_file, line_number, i + 1,
                                      func_name, func_line)
            ELSE ClosestFromExclusive(functions_in_file, line_number, i + 1,
                                      closest_function, closest_line)

\* a mutant of ClosestFunction: func_line < line_number, the boundary left out
ClosestFunctionExclusive(functions_in_file, line_number) ==
    ClosestFromExclusive(functions_in_file, line_number, 1, NoName, 0)

ClosestFunction(functions_in_file, line_number) ==
    ClosestFrom(functions_in_file, line_number, 1, NoName, 0)

find_function_at_line(file_path, line_number, all_functions_with_lines) ==
    LET k == MatchingFile(file_path, all_functions_with_lines)
    IN IF k = 0 THEN NoName
       ELSE ClosestFunction(all_functions_with_lines[k].functions, line_number)

----------------------------------------------------------------------------
(* VerificationParser: what its string tests find in the lines              *)

\* prev_line.startswith('error:') or prev_line.startswith('error[')
StartsWithErrorHeader(line) ==
    line \in {CargoLine, ErrorLine, VerifLine, AssertLine, CodedAssertLine, TwoPhraseLine}

\* line.startswith('error:')
StartsWithError(line) == line \in {CargoLine, VerifLine, AssertLine, TwoPhraseLine}

\* line.startswith('note:')
StartsWithNote(line) == line = NoteLine

\* line.startswith('verification results')
StartsWithResults(line) == line = SummaryLine

\* 'has been running for' in line or 'finished in' in line or
\* 'check has been running' in line or 'check finished in' in line
HasTimingText(line) == line = NoteLine

\* the first entry of verification_error_types that the line contains ("" if none)
FailureType(line) ==
    CASE line = VerifLine  -> "postcondition not satisfied"
      [] line = AssertLine -> "assertion failed"
      [] line = CodedAssertLine -> "assertion failed"
      [] line = ColouredVerifLine -> "postcondition not satisfied"
      [] line = TwoPhraseLine -> "assertion failed"
      [] OTHER             -> ""

\* 'error' in line.lower()
ContainsError(line) ==
    line \in {CargoLine, ErrorLine, VerifLine, AssertLine, CodedAssertLine, SummaryLine,
              ColouredVerifLine, TwoPhraseLine}

\* int(current_line.split(':')[-1]) when there are at least 3 parts and the last
\* one is a number, else None: for the location lines of the alphabet, the column
SplitColumn(line) == LocColumn(line)

\* 'assert' in line or '|' in line or line.startswith('-->'), for a non-empty line
IsDetailLine(line) ==
    line \in {AssertLine, CodedAssertLine, TwoPhraseLine, "assert(x > 0);", "|",
              strip(LocLine), strip(LocLineLow), strip(LocLineM)}

LookBack == 10
WindowLen == 15
MaxDetails == 10

----------------------------------------------------------------------------
(* VerificationParser.parse_verification_output_from_content                *)

RECURSIVE IsActualError(_, _, _)
\* the inner loop over j in range(max(0, i - 10), i); lines are numbered from 1
IsActualError(lines, i, j) ==
    IF j >= i THEN FALSE
    ELSE LET prev_line == strip(lines[j])
         IN IF StartsWithErrorHeader(prev_line)
               /\ ~(StartsWithNote(prev_line) \/ HasTimingText(prev_line))
            THEN TRUE
            ELSE IF StartsWithNote(prev_line) /\ HasTimingText(prev_line)
            THEN FALSE
            ELSE IsActualError(lines, i, j + 1)

\* errors_by_file[file_path].append(line_number), creating the entry when new
AddErrorLine(errors_by_file, file_path, line_number) ==
    IF \E k \in 1..Len(errors_by_file) : errors_by_file[k].file = file_path
    THEN [k \in 1..Len(errors_by_file) |->
             IF errors_by_file[k].file = file_path
             THEN [errors_by_file[k] EXCEPT !.lines = Append(@, line_number)]
             ELSE errors_by_file[k]]
    ELSE Append(errors_by_file, [file |-> file_path, lines |-> <<line_number>>])

RECURSIVE ErrorsByFileFrom(_, _, _)
ErrorsByFileFrom(lines, i, errors_by_file) ==
    IF i > Len(lines) THEN errors_by_file
    ELSE IF file_location_pattern(lines[i])
            /\ IsActualError(lines, i, Max(1, i - LookBack))
         THEN ErrorsByFileFrom(lines, i + 1,
                  AddErrorLine(errors_by_file, LocFile(lines[i]), LocLineNo(lines[i])))
         ELSE ErrorsByFileFrom(lines, i + 1, errors_by_file)

\* returns errors_by_file: a sequence of [file, lines] in the dict's order
parse_verification_output_from_content(lines) == ErrorsByFileFrom(lines, 1, <<>>)

----------------------------------------------------------------------------
(* VerificationParser.parse_verification_failures                           *)

\* '\n'.join(text).strip(), kept as lines: blank lines at both ends go, and the
\* blanks before the first and after the last character
RECURSIVE StripText(_)
StripText(text) ==
    IF text = <<>> THEN <<>>
    ELSE IF strip(text[1]) = "" THEN StripText(Tail(text))
    ELSE IF strip(text[Len(text)]) = "" THEN StripText(SubSeq(text, 1, Len(text) - 1))
    ELSE [k \in 1..Len(text) |-> IF k = 1 THEN strip(text[k]) ELSE text[k]]

\* a window of 15 lines after the trigger line
WindowEndAfterTrigger(lines, i) == Min(i + WindowLen, Len(lines))

\* min(i + 15, len(lines)), as the last position of the range, lines numbered from 1
WindowEnd(lines, i) == Min(i + WindowLen - 1, Len(lines))

RECURSIVE Capture(_, _, _, _)
\* the loop over j in range(i, min(i + 15, len(lines))), lines numbered from 1;
\* w is [full_error_lines, file, line, column, location_found_at]
Capture(lines, i, j, w) ==
    IF j > WindowEnd(lines, i) THEN w
    ELSE LET current_line == lines[j]
             isLoc == file_location_pattern(current_line) /\ w.location_found_at = -1
             w1 == [w EXCEPT !.full_error_lines = Append(@, current_line)]
             w2 == IF isLoc
                   THEN [w1 EXCEPT !.file = LocFile(current_line),
                                   !.line = LocLineNo(current_line),
                                   !.column = SplitColumn(current_line),
                                   !.location_found_at = j]
                   ELSE w1
             stop == /\ w2.location_found_at # -1
                     /\ j > w2.location_found_at + 1
                     /\ strip(current_line) = ""
                     /\ j + 1 <= Len(lines)
                     /\ LET next_next_line == strip(lines[j + 1])
                        IN \/ StartsWithError(next_next_line)
                           \/ StartsWithResults(next_next_line)
                           \/ StartsWithNote(next_next_line)
         IN IF stop THEN w2 ELSE Capture(lines, i, j + 1, w2)

\* the failure record built for the trigger line i
Failure(lines, i) ==
    LET line == strip(lines[i])
        w == Capture(lines, i, i,
                 [full_error_lines |-> <<>>, file |-> None, line |-> NoneInt,
                  column |-> NoneInt, location_found_at |-> -1])
        clean_full_text == [k \in 1..Len(w.full_error_lines) |-> clean(w.full_error_lines[k])]
        details == SelectSeq([k \in 1..Len(clean_full_text) |-> strip(clean_full_text[k])],
                             LAMBDA l : l # "" /\ IsDetailLine(l))
    IN [error_type |-> FailureType(line),
        file |-> w.file,
        line |-> w.line,
        column |-> w.column,
        message |-> clean(line),
        assertion_details |-> SubSeq(details, 1, Min(MaxDetails, Len(details))),
        full_error_text |-> StripText(clean_full_text)]

\* after a failure the scan goes on behind the lines captured for it
RECURSIVE FailuresSkippingWindow(_, _)
FailuresSkippingWindow(lines, i) ==
    IF i > Len(lines) THEN <<>>
    ELSE IF FailureType(strip(lines[i])) # "" /\ ContainsError(strip(lines[i]))
         THEN <<Failure(lines, i)>> \o FailuresSkippingWindow(lines, WindowEnd(lines, i) + 1)
         ELSE FailuresSkippingWindow(lines, i + 1)

RECURSIVE FailuresFrom(_, _)
FailuresFrom(lines, i) ==
    IF i > Len(lines) THEN <<>>
    ELSE IF FailureType(strip(lines[i])) # "" /\ ContainsError(strip(lines[i]))
         THEN <<Failure(lines, i)>> \o FailuresFrom(lines, i + 1)
         ELSE FailuresFrom(lines, i + 1)

parse_verification_failures(lines) == FailuresFrom(lines, 1)

----------------------------------------------------------------------------
(* VerusAnalyzer (find_verus_functions_syn.py)                              *)

RECURSIVE ReplaceColons(_, _)
\* module_filter.replace('::', '/')
ReplaceColons(m, i) ==
    IF i > Len(m) THEN <<>>
    ELSE IF i < Len(m) /\ m[i] = ":" /\ m[i + 1] = ":"
         THEN <<"/">> \o ReplaceColons(m, i + 2)
         ELSE <<m[i]>> \o ReplaceColons(m, i + 1)

\* every name of an index, used by the filter without the membership test
AllNamesOfIndex(all_functions_with_lines) ==
    UNION {{all_functions_with_lines[k].functions[n][1] :
                n \in 1..Len(all_functions_with_lines[k].functions)} :
           k \in 1..Len(all_functions_with_lines)}

\* f"/{module_path}.rs" in file_path_str or f"/{module_path}/" in file_path_str
ModuleMatches(file_path, module_path) ==
    \/ Contains(file_path, <<"/">> \o module_path \o <<".", "r", "s">>)
    \/ Contains(file_path, <<"/">> \o module_path \o <<"/">>)

\* a filter that leaves out the test func_name not in functions_set
FilterWithoutMembership(all_functions_with_lines, functions_set, module_filter, function_filter) ==
    IF module_filter = None /\ function_filter = NoName THEN functions_set
    ELSE {func_name \in AllNamesOfIndex(all_functions_with_lines) :
             \E k \in 1..Len(all_functions_with_lines) :
                 /\ module_filter = None
                    \/ ModuleMatches(all_functions_with_lines[k].file, ReplaceColons(module_filter, 1))
                 /\ \E n \in 1..Len(all_functions_with_lines[k].functions) :
                        all_functions_with_lines[k].functions[n][1] = func_name
                 /\ function_filter = NoName \/ func_name = function_filter}

filter_functions_by_module_and_function(all_functions_with_lines, functions_set, module_filter, function_filter) ==
    IF module_filter = None /\ function_filter = NoName THEN functions_set
    ELSE LET module_path == ReplaceColons(module_filter, 1)
         IN {func_name \in functions_set :
                \E k \in 1..Len(all_functions_with_lines) :
                    /\ module_filter = None
                       \/ ModuleMatches(all_functions_with_lines[k].file, module_path)
                    /\ \E n \in 1..Len(all_functions_with_lines[k].functions) :
                           all_functions_with_lines[k].functions[n][1] = func_name
                    /\ function_filter = NoName \/ func_name = function_filter}

\* all_function_names
AllFunctionNames(all_functions_with_lines) ==
    UNION {{all_functions_with_lines[k].functions[n][1] :
                n \in 1..Len(all_functions_with_lines[k].functions)} :
           k \in 1..Len(all_functions_with_lines)}

\* a mutant of MarkFailed: the failed function stays in verified_functions
MarkFailedNoDiscard(sets, failed_func) ==
    IF failed_func # NoName
    THEN [verified |-> sets.verified, failed |-> sets.failed \cup {failed_func}]
    ELSE sets

\* a mutant of MarkFailed: the function is taken out of verified_functions only
MarkFailedNoAdd(sets, failed_func) ==
    IF failed_func # NoName
    THEN [verified |-> sets.verified \ {failed_func}, failed |-> sets.failed]
    ELSE sets

\* if failed_func: failed_functions.add(failed_func); verified_functions.discard(failed_func)
MarkFailed(sets, failed_func) ==
    IF failed_func # NoName
    THEN [verified |-> sets.verified \ {failed_func}, failed |-> sets.failed \cup {failed_func}]
    ELSE sets

RECURSIVE MarkLines(_, _, _, _, _)
\* for error_line in error_lines: ...
MarkLines(sets, file_path, error_lines, n, all_functions_with_lines) ==
    IF n > Len(error_lines) THEN sets
    ELSE MarkLines(MarkFailed(sets, find_function_at_line(file_path, error_lines[n],
                                                          all_functions_with_lines)),
                   file_path, error_lines, n + 1, all_functions_with_lines)

RECURSIVE MarkErrorsByFile(_, _, _, _)
\* for file_path, error_lines in errors_by_file.items(): ...
MarkErrorsByFile(sets, errors_by_file, k, all_functions_with_lines) ==
    IF k > Len(errors_by_file) THEN sets
    ELSE MarkErrorsByFile(
             MarkLines(sets, errors_by_file[k].file, errors_by_file[k].lines, 1,
                       all_functions_with_lines),
             errors_by_file, k + 1, all_functions_with_lines)

RECURSIVE MarkFailures(_, _, _, _)
\* for failure in verification_failures: if failure.get('file') and failure.get('line'): ...
MarkFailures(sets, verification_failures, k, all_functions_with_lines) ==
    IF k > Len(verification_failures) THEN sets
    ELSE LET failure == verification_failures[k]
         IN MarkFailures(
                IF failure.file # None /\ failure.line # NoneInt /\ failure.line # 0
                THEN MarkFailed(sets, find_function_at_line(failure.file, failure.line,
                                                            all_functions_with_lines))
                ELSE sets,
                verification_failures, k + 1, all_functions_with_lines)

\* a mutant of DecideStatus: compilation errors are looked at first
\* (the order of find_verus_functions.py)
DecideStatusErrorsFirst(has_results, has_verification_failures, has_compilation_errors) ==
    IF has_compilation_errors THEN "compilation_failed"
    ELSE IF has_verification_failures THEN "verification_failed"
    ELSE "success"

\* the if / elif / else that sets status
DecideStatus(has_results, has_verification_failures, has_compilation_errors) ==
    IF has_results
    THEN IF has_verification_failures THEN "verification_failed" ELSE "success"
    ELSE IF has_compilation_errors THEN "compilation_failed"
    ELSE "success"

\* a mutant of ClearIfNotChecked: only failed_functions is reset
ClearFailedOnly(status, sets) ==
    IF status = "compilation_failed"
    THEN [verified |-> sets.verified, failed |-> {}]
    ELSE sets

\* verified_functions = set(); failed_functions = set() in the compilation_failed branch
ClearIfNotChecked(status, sets) ==
    IF status = "compilation_failed"
    THEN [verified |-> {}, failed |-> {}]
    ELSE sets

\* an appended error whose text is the same for every exit code
GenericErrorFixedCode(code) ==
    [message |-> <<"Command failed with exit code ", "101">>,
     file |-> None, line |-> NoneInt, column |-> NoneInt,
     full_message |-> <<"Process exited with code 101">>]

\* the error appended for a nonzero exit code
GenericError(code) ==
    [message |-> <<"Command failed with exit code ", ToString(code)>>,
     file |-> None, line |-> NoneInt, column |-> NoneInt,
     full_message |-> <<"Process exited with code " \o ToString(code)>>]

\* exit_code is <<>> (None) or <<n>>; the sorted name lists are kept as sets
\* a summary whose failed_functions counts the failure records
SummaryCountingRecords(all_function_names, verified_functions, failed_functions, compilation_errors, compilation_warnings, verification_failures) ==
    [total_functions |-> Cardinality(all_function_names),
     verified_functions |-> Cardinality(verified_functions),
     failed_functions |-> Len(verification_failures),
     compilation_errors |-> Len(compilation_errors),
     compilation_warnings |-> Len(compilation_warnings),
     verification_errors |-> Len(verification_failures)]

\* the "summary" object of the report: a len(...) of each list returned
ReportSummary(all_function_names, verified_functions, failed_functions, compilation_errors, compilation_warnings, verification_failures) ==
    [total_functions |-> Cardinality(all_function_names),
     verified_functions |-> Cardinality(verified_functions),
     failed_functions |-> Cardinality(failed_functions),
     compilation_errors |-> Len(compilation_errors),
     compilation_warnings |-> Len(compilation_warnings),
     verification_errors |-> Len(verification_failures)]

analyze_output(all_functions_with_lines, output_content, code, module_filter, function_filter) ==
    LET parsed == parse_compilation_output(output_content)
        all_function_names == AllFunctionNames(all_functions_with_lines)
        errors_by_file == parse_verification_output_from_content(output_content)
        verification_failures == parse_verification_failures(output_content)
        sets0 == [verified |-> all_function_names, failed |-> {}]
        sets1 == MarkErrorsByFile(sets0, errors_by_file, 1, all_functions_with_lines)
        sets2 == MarkFailures(sets1, verification_failures, 1, all_functions_with_lines)
        has_verification_failures == Len(verification_failures) > 0
        has_results == has_verification_results(output_content)
        synthesize == /\ code # <<>> /\ code[1] # 0
                      /\ ~(Len(parsed.errors) > 0)
                      /\ ~has_verification_failures
                      /\ ~has_results
        compilation_errors == IF synthesize
                              THEN Append(parsed.errors, GenericError(code[1]))
                              ELSE parsed.errors
        has_compilation_errors == Len(parsed.errors) > 0 \/ synthesize
        status == DecideStatus(has_results, has_verification_failures,
                               has_compilation_errors)
        sets3 == ClearIfNotChecked(status, sets2)
        verified_functions ==
            filter_functions_by_module_and_function(all_functions_with_lines, sets3.verified,
                                                    module_filter, function_filter)
        failed_functions ==
            filter_functions_by_module_and_function(all_functions_with_lines, sets3.failed,
                                                    module_filter, function_filter)
        shown_names ==
            filter_functions_by_module_and_function(all_functions_with_lines,
                                                    all_function_names,
                                                    module_filter, function_filter)
    IN [status |-> status,
        summary |-> ReportSummary(shown_names, verified_functions, failed_functions,
                                  compilation_errors, parsed.warnings, verification_failures),
        compilation |-> [errors |-> compilation_errors, warnings |-> parsed.warnings],
        verification |-> [verified_functions |-> verified_functions,
                          failed_functions |-> failed_functions,
                          errors |-> verification_failures],
        functions_by_file |-> all_functions_with_lines]

----------------------------------------------------------------------------
(* VerusAnalyzer.analyze_output of find_verus_functions.py, with the        *)
(* VerificationParser of that file                                          *)

RECURSIVE original_errors_by_file(_, _, _)
\* VerificationParser.parse_verification_output: every location line counts
original_errors_by_file(lines, i, errors_by_file) ==
    IF i > Len(lines) THEN errors_by_file
    ELSE IF file_location_pattern(lines[i])
         THEN original_errors_by_file(lines, i + 1,
                  AddErrorLine(errors_by_file, LocFile(lines[i]), LocLineNo(lines[i])))
         ELSE original_errors_by_file(lines, i + 1, errors_by_file)

\* VerificationParser.find_function_at_line: the first key that holds the path,
\* is held by it, or has its file name; the closest function at or above the line
original_find_function_at_line(file_path, line_number, all_functions_with_lines) ==
    LET matching == {k \in 1..Len(all_functions_with_lines) :
                        \/ Contains(all_functions_with_lines[k].file, file_path)
                        \/ Contains(file_path, all_functions_with_lines[k].file)
                        \/ PathName(file_path) = PathName(all_functions_with_lines[k].file)}
    IN IF matching = {} THEN NoName
       ELSE ClosestFunction(
                all_functions_with_lines[CHOOSE k \in matching : \A m \in matching : k <= m].functions,
                line_number)

\* the report of the original analyze_output: the summary has no count of
\* verification errors and the status puts compilation errors first
original_analyze_output(all_functions_with_lines, output_content, code) ==
    LET parsed == original_parse_compilation_output(output_content)
        all_function_names == AllFunctionNames(all_functions_with_lines)
        errors_by_file == original_errors_by_file(output_content, 1, <<>>)
        marked == {original_find_function_at_line(errors_by_file[k[1]].file,
                                                  errors_by_file[k[1]].lines[k[2]],
                                                  all_functions_with_lines) :
                      k \in {kn \in (1..Len(errors_by_file)) \X (1..Len(output_content)) :
                                kn[2] <= Len(errors_by_file[kn[1]].lines)}} \ {NoName}
        has_verification_failures == marked # {}
        synthesize == code # <<>> /\ code[1] # 0 /\ parsed.errors = <<>>
        compilation_errors == IF synthesize
                              THEN Append(parsed.errors, GenericError(code[1]))
                              ELSE parsed.errors
        has_compilation_errors == compilation_errors # <<>>
        verified_functions == IF has_compilation_errors THEN {} ELSE all_function_names \ marked
        failed_functions == IF has_compilation_errors THEN {} ELSE marked
    IN [status |-> IF has_compilation_errors THEN "compilation_failed"
                   ELSE IF has_verification_failures THEN "verification_failed"
                   ELSE "success",
        summary |-> [total_functions |-> Cardinality(all_function_names),
                     verified_functions |-> Cardinality(verified_functions),
                     failed_functions |-> Cardinality(failed_functions),
                     compilation_errors |-> Len(compilation_errors),
                     compilation_warnings |-> Len(parsed.warnings)],
        compilation |-> [errors |-> compilation_errors, warnings |-> parsed.warnings],
        verification |-> [verified_functions |-> verified_functions,
                          failed_functions |-> failed_functions],
        functions_by_file |-> all_functions_with_lines]

----------------------------------------------------------------------------
(* The analysis of one run: the output text is built line by line, then     *)
(* analyze_output runs once on it.                                          *)

MaxLines == 3

\* the lines of the output text under analysis
AnalyzeLines ==
    {SummaryLine, ErrorLine, VerifLine, LocLine, LocLineLow, WarnLine, BlankLine}

\* exit_code: None, zero, nonzero
ExitCodes == {<<>>, <<0>>, <<101>>}

LibFunctions == << <<"foo", 40>>, <<"baz", 45>> >>

\* the SourceIndex: empty (no source found), one file, two files sharing a name
Indexes ==
    { <<>>,
      <<[file |-> SrcLibRs, functions |-> LibFunctions]>>,
      <<[file |-> SrcMRs, functions |-> << <<"foo", 10>>, <<"bar", 50>> >>],
        [file |-> SrcLibRs, functions |-> << <<"baz", 45>>, <<"foo", 40>> >>]>> }

NoFilter == [module |-> None, function |-> NoName]

\* no filter, --verify-only-module lib, --verify-function foo, both options
Filters ==
    { NoFilter,
      [module |-> <<"l", "i", "b">>, function |-> NoName],
      [module |-> None, function |-> "foo"],
      [module |-> <<"l", "i", "b">>, function |-> "baz"] }

NoReport == [status |-> "none"]
NoSource == [finder |-> "none", exists |-> FALSE, is_file |-> FALSE, backend |-> "none", files |-> <<>>]
NoDiag == [file |-> None, line |-> NoneInt]
NoFound == [matching_file |-> 0, function |-> NoName]

InitAnalyze ==
    /\ pc = "input"
    /\ output = <<>>
    /\ exit_code = <<>>
    /\ index = <<>>
    /\ filters = NoFilter
    /\ report = NoReport
    /\ diag = NoDiag
    /\ found = NoFound
    /\ parser = NoParser
    /\ failures = <<>>
    /\ scan = NoScan
    /\ source = NoSource
    /\ content = <<>>
    /\ functions = <<>>

\* one more line of output is produced by the verification run
AppendOutputLine ==
    /\ pc = "input"
    /\ Len(output) < MaxLines
    /\ \E l \in AnalyzeLines : output' = Append(output, l)
    /\ UNCHANGED <<pc, exit_code, index, filters, report, diag, found, content, functions, parser, failures, scan, source>>

\* VerusAnalyzer.analyze_output(path, output_content, exit_code=..., module_filter=...,
\* function_filter=...), the SourceIndex being what find_all_functions(path) returns
Analyze ==
    /\ pc = "input"
    /\ \E idx \in Indexes, code \in ExitCodes, f \in Filters :
          /\ index' = idx
          /\ exit_code' = code
          /\ filters' = f
          /\ report' = analyze_output(idx, output, code, f.module, f.function)
    /\ pc' = "analyzed"
    /\ UNCHANGED <<output, diag, found, content, functions, parser, failures, scan, source>>

\* VerusAnalyzer.analyze_output(path, output_content, exit_code=...) of
\* find_verus_functions.py on the same output
AnalyzeOriginal ==
    /\ pc = "input"
    /\ \E idx \in Indexes, code \in ExitCodes :
          /\ index' = idx
          /\ exit_code' = code
          /\ report' = original_analyze_output(idx, output, code)
    /\ pc' = "analyzed_original"
    /\ UNCHANGED <<output, filters, diag, found, content, functions, parser, failures, scan, source>>

NextAnalyze == AppendOutputLine \/ Analyze \/ AnalyzeOriginal

SpecAnalyze == InitAnalyze /\ [][NextAnalyze]_vars

----------------------------------------------------------------------------
(* Properties of analyze_output                                             *)

\* the output text holds a verification-results summary line
SummarySeen == \E i \in 1..Len(output) : output[i] = SummaryLine

\* the function a failure record's location resolves to (NoName if none)
ResolvedFunction(failure) ==
    IF failure.file # None /\ failure.line # NoneInt
    THEN find_function_at_line(failure.file, failure.line, index)
    ELSE NoName

\* some failure record of the report resolves to a function of the index
SomeFailureResolved ==
    \E k \in 1..Len(report.verification.errors) :
        ResolvedFunction(report.verification.errors[k]) # NoName

\* C1: when the output holds a summary line, the status is verification_failed if
\* at least one VerificationFailure record was extracted and success otherwise,
\* whatever the compilation errors and the exit code; never compilation_failed.
C1_SummaryDecidesStatus ==
    (pc = "analyzed" /\ SummarySeen) =>
        /\ report.status = IF Len(report.verification.errors) > 0
                           THEN "verification_failed" ELSE "success"
        /\ report.status # "compilation_failed"

\* a summary, a compilation error, a verification failure and a nonzero exit code
C1_Witness ==
    /\ pc = "analyzed" /\ SummarySeen
    /\ Len(report.compilation.errors) > 0
    /\ exit_code = <<101>>
    /\ report.status = "verification_failed"

\* C2: with no summary line the status does not depend on the verification
\* failures: compilation_failed if a compilation error was parsed; else, for a
\* nonzero exit code, compilation_failed with one synthesized error carrying the
\* code; else success.
C2_NoSummaryStatus ==
    (pc = "analyzed" /\ ~SummarySeen) =>
        LET parsed == parse_compilation_output(output).errors
        IN IF Len(parsed) > 0 THEN report.status = "compilation_failed"
           ELSE IF exit_code # <<>> /\ exit_code[1] # 0
                THEN /\ report.status = "compilation_failed"
                     /\ report.compilation.errors = <<GenericError(exit_code[1])>>
           ELSE report.status = "success"

\* C3: a compilation_failed report has empty verified_functions and
\* failed_functions, and their summary counts are 0.
C3_CompilationFailedClears ==
    (pc = "analyzed" /\ report.status = "compilation_failed") =>
        /\ report.verification.verified_functions = {}
        /\ report.verification.failed_functions = {}
        /\ report.summary.verified_functions = 0
        /\ report.summary.failed_functions = 0

\* compilation_failed although the index holds functions and a failure resolved to one
C3_Witness ==
    /\ pc = "analyzed" /\ report.status = "compilation_failed"
    /\ AllFunctionNames(index) # {}
    /\ SomeFailureResolved

\* C4: with no filter and a status other than compilation_failed, verified_functions
\* and failed_functions are disjoint and their union is the set of all names of
\* the SourceIndex.
C4_VerifiedFailedPartition ==
    (pc = "analyzed" /\ report.status # "compilation_failed" /\ filters = NoFilter) =>
        /\ report.verification.verified_functions
               \cap report.verification.failed_functions = {}
        /\ report.verification.verified_functions
               \cup report.verification.failed_functions = AllFunctionNames(index)

\* both lists are non-empty, in an index of two files that share a function name
C4_Witness ==
    /\ pc = "analyzed" /\ report.status # "compilation_failed" /\ filters = NoFilter
    /\ report.verification.failed_functions # {}
    /\ report.verification.verified_functions # {}
    /\ Len(index) = 2

\* C5 as stated: every VerificationFailure record that resolves to a function f has
\* f in failed_functions and not in verified_functions, and the status is
\* verification_failed when a summary line is present (no filters).
C5_Original ==
    (pc = "analyzed" /\ filters = NoFilter) =>
        \A k \in 1..Len(report.verification.errors) :
            LET f == ResolvedFunction(report.verification.errors[k])
            IN f # NoName =>
                  /\ f \in report.verification.failed_functions
                  /\ f \notin report.verification.verified_functions
                  /\ SummarySeen => report.status = "verification_failed"

\* C5 as amended: the same, except that in a compilation_failed report the
\* function is in neither list.
C5_ResolvedFailureIsFailed ==
    (pc = "analyzed" /\ filters = NoFilter) =>
        \A k \in 1..Len(report.verification.errors) :
            LET f == ResolvedFunction(report.verification.errors[k])
            IN f # NoName =>
                  /\ report.status # "compilation_failed" =>
                        /\ f \in report.verification.failed_functions
                        /\ f \notin report.verification.verified_functions
                  /\ report.status = "compilation_failed" =>
                        /\ f \notin report.verification.failed_functions
                        /\ f \notin report.verification.verified_functions
                  /\ SummarySeen => report.status = "verification_failed"

\* error: postcondition not satisfied at src/lib.rs:42, foo defined at line 40 and
\* baz at line 45, and a summary line
C5_Witness ==
    /\ pc = "analyzed" /\ filters = NoFilter /\ SummarySeen
    /\ index = <<[file |-> SrcLibRs, functions |-> LibFunctions]>>
    /\ \E k \in 1..Len(report.verification.errors) :
           /\ report.verification.errors[k].line = 42
           /\ ResolvedFunction(report.verification.errors[k]) = "foo"
    /\ report.status = "verification_failed"
    /\ "foo" \in report.verification.failed_functions
    /\ "baz" \in report.verification.verified_functions

----------------------------------------------------------------------------
(* find_function_at_line on its own: the arguments are drawn from two       *)
(* families, one varying the function list of a single matched file, one    *)
(* varying the paths of a two-file index.                                   *)

MaxFuncs == 3
MaxDefLine == 3
MaxPathLen == 3

\* definition lines (1-based) and diagnostic lines (0 upwards)
DefLines == 1..MaxDefLine \cup {10, 50, 120}
DiagLines == 0..(MaxDefLine + 1) \cup {5, 50, 75}

\* the i-th function of a list is named after its position
FuncName(i) == "f" \o ToString(i)

FunctionLists ==
    UNION {{[i \in 1..n |-> <<FuncName(i), ln[i]>>] : ln \in [1..n -> DefLines]} :
           n \in 0..MaxFuncs}

PathChars == {"a", "b", "/"}

\* the paths a diagnostic may name
DiagPaths == UNION {[1..n -> PathChars] : n \in 1..MaxPathLen}

\* the keys of the index: relative paths of files, as str(Path(...)) writes them
KeyPaths == {p \in DiagPaths : NormPath(p) = p /\ p[1] # "/"}

OneFileIndexes ==
    {<<[file |-> <<"a">>, functions |-> fl]>> : fl \in FunctionLists}

TwoFileIndexes ==
    {<<[file |-> k1, functions |-> << <<"first", 1>> >>],
       [file |-> k2, functions |-> << <<"second", 1>> >>]>> :
        k1 \in KeyPaths, k2 \in KeyPaths}

InitFind ==
    /\ pc = "input"
    \* the keys of a dict are distinct
    /\ \/ /\ index \in OneFileIndexes
          /\ diag \in [file : {<<"a">>}, line : DiagLines]
       \/ /\ index \in {ix \in TwoFileIndexes : ix[1].file # ix[2].file}
          /\ diag \in [file : DiagPaths, line : {1}]
    /\ found = NoFound
    /\ parser = NoParser
    /\ failures = <<>>
    /\ scan = NoScan
    /\ source = NoSource
    /\ output = <<>>
    /\ exit_code = <<>>
    /\ filters = NoFilter
    /\ report = NoReport
    /\ content = <<>>
    /\ functions = <<>>

\* VerificationParser.find_function_at_line(file_path, line_number, index)
FindFunction ==
    /\ pc = "input"
    /\ found' = [matching_file |-> MatchingFile(diag.file, index),
                 function |-> find_function_at_line(diag.file, diag.line, index)]
    /\ pc' = "found"
    /\ UNCHANGED <<output, exit_code, index, filters, report, diag, content, functions, parser, failures, scan, source>>

NextFind == FindFunction

SpecFind == InitFind /\ [][NextFind]_vars

----------------------------------------------------------------------------
(* Properties of find_function_at_line                                      *)

\* the positions of the matched file's functions defined at or before the line
Candidates ==
    {i \in 1..Len(index[found.matching_file].functions) :
        index[found.matching_file].functions[i][2] <= diag.line}

\* C6: given a matched file, the result is a function whose definition line is the
\* greatest definition line at or before the diagnostic line (boundary included),
\* and none when there is no such line, for any order of the function list.
C6_ClosestAtOrBefore ==
    (pc = "found" /\ found.matching_file # 0) =>
        LET fs == index[found.matching_file].functions
        IN IF Candidates = {} THEN found.function = NoName
           ELSE \E i \in Candidates :
                   /\ found.function = fs[i][1]
                   /\ \A j \in Candidates : fs[j][2] <= fs[i][2]

\* definitions at lines 120, 10, 50 in that order, diagnostic at line 50
C6_Witness ==
    /\ pc = "found"
    /\ Len(index) = 1
    /\ index[1].functions = << <<"f1", 120>>, <<"f2", 10>>, <<"f3", 50>> >>
    /\ diag.line = 50
    /\ found.function = "f3"

\* the rule by which a key matches the diagnostic's path: 1 exact, 2 suffix,
\* 3 substring, 4 equal basename, 5 no match
Rank(file_path, file_key) ==
    LET a == NormPath(file_path)
        b == NormPath(file_key)
    IN IF a = b THEN 1
       ELSE IF EndsWith(a, b) \/ EndsWith(b, a) THEN 2
       ELSE IF Contains(b, a) \/ Contains(a, b) THEN 3
       ELSE IF PathName(file_path) = PathName(file_key) THEN 4
       ELSE 5

\* C7: the file is chosen by the priority exact, suffix, substring, basename taken
\* over all indexed files: no other indexed file matches by a higher-priority rule
\* than the chosen one.
C7_PriorityOverAllFiles ==
    pc = "found" =>
        IF \A k \in 1..Len(index) : Rank(diag.file, index[k].file) = 5
        THEN found.matching_file = 0
        ELSE /\ found.matching_file # 0
             /\ \A k \in 1..Len(index) :
                    Rank(diag.file, index[found.matching_file].file)
                        <= Rank(diag.file, index[k].file)

----------------------------------------------------------------------------
(* RustFunctionFinder (find_verus_functions.py)                             *)
(* Source text is a sequence of tokens separated by blanks: words, the      *)
(* marker "verus!", braces, parentheses, the quote, the backslash, the      *)
(* comment markers, and "NL" for a line break.                              *)

Quote == "\""
Backslash == "\\"

\* (?:spec|proof|exec|open|uninterp|const) of all_fn_pattern
Modifiers == {"spec", "proof", "exec", "open", "uninterp", "const"}

\* ['spec', 'proof', 'exec', 'open', 'uninterp'] of extract_functions_from_block
VerusKeywords == {"spec", "proof", "exec", "open", "uninterp"}

\* [a-zA-Z_][a-zA-Z0-9_]* matches a whole token
IsIdent(tok) == tok \in Modifiers \cup {"pub", "fn", "foo", "bar", "f", "g", "x"}

\* the token at position i, "" past either end
TokAt(toks, i) == IF i \in 1..Len(toks) THEN toks[i] ELSE ""

\* text.count('\n') over the first n tokens
RECURSIVE CountNL(_, _)
CountNL(toks, n) ==
    IF n <= 0 THEN 0
    ELSE (IF toks[n] = "NL" THEN 1 ELSE 0) + CountNL(toks, n - 1)

\* \s* and \s+ between two tokens: the first position from i on that is no line break
RECURSIVE SkipNL(_, _)
SkipNL(toks, i) == IF TokAt(toks, i) = "NL" THEN SkipNL(toks, i + 1) ELSE i

(* find_matching_brace *)

\* the string branch without the test for the backslash
RECURSIVE SkipStringNoEscape(_, _)
SkipStringNoEscape(toks, i) ==
    IF i > Len(toks) \/ toks[i] = Quote THEN i ELSE SkipStringNoEscape(toks, i + 1)

\* the inner loop of the string branch: the position of the closing quote
RECURSIVE SkipString(_, _)
SkipString(toks, i) ==
    IF i > Len(toks) \/ toks[i] = Quote THEN i
    ELSE IF toks[i] = Backslash THEN SkipString(toks, i + 2)
    ELSE SkipString(toks, i + 1)

\* the inner loop of the block-comment branch: the position of the closing marker
RECURSIVE SkipBlock(_, _)
SkipBlock(toks, i) ==
    IF i > Len(toks) \/ toks[i] = "*/" THEN i ELSE SkipBlock(toks, i + 1)

\* the inner loop of the line-comment branch: the position of the line break
RECURSIVE SkipLine(_, _)
SkipLine(toks, i) ==
    IF i > Len(toks) \/ toks[i] = "NL" THEN i ELSE SkipLine(toks, i + 1)

\* the while loop of find_matching_brace; 0 stands for -1
RECURSIVE MatchBraceFrom(_, _, _)
MatchBraceFrom(toks, i, brace_count) ==
    IF i > Len(toks) THEN 0
    ELSE IF toks[i] = "{" THEN MatchBraceFrom(toks, i + 1, brace_count + 1)
    ELSE IF toks[i] = "}" THEN
        IF brace_count - 1 = 0 THEN i ELSE MatchBraceFrom(toks, i + 1, brace_count - 1)
    ELSE IF toks[i] = Quote THEN MatchBraceFrom(toks, SkipString(toks, i + 1) + 1, brace_count)
    ELSE IF toks[i] = "/*" THEN MatchBraceFrom(toks, SkipBlock(toks, i + 1) + 1, brace_count)
    ELSE IF toks[i] = "//" THEN MatchBraceFrom(toks, SkipLine(toks, i) + 1, brace_count)
    ELSE MatchBraceFrom(toks, i + 1, brace_count)

find_matching_brace(toks, start_pos) == MatchBraceFrom(toks, start_pos, 0)

(* extract_verus_blocks *)

\* verus_start_pattern.search(content, start): the first position from start on
\* where the marker is followed, after blanks, by an opening brace; 0 if none
RECURSIVE SearchMarker(_, _)
SearchMarker(toks, start) ==
    IF start > Len(toks) THEN 0
    ELSE IF toks[start] = "verus!" /\ TokAt(toks, SkipNL(toks, start + 1)) = "{" THEN start
    ELSE SearchMarker(toks, start + 1)

\* the while True loop; a block is [block_content, block_start_line]
RECURSIVE BlocksFrom(_, _)
BlocksFrom(toks, start) ==
    LET m == SearchMarker(toks, start)
        brace_start == SkipNL(toks, m + 1)
        brace_end == find_matching_brace(toks, brace_start)
    IN IF m = 0 THEN <<>>
       ELSE IF brace_end = 0 THEN <<>>
       ELSE <<[block_content |-> SubSeq(toks, m, brace_end),
               block_start_line |-> CountNL(toks, m - 1) + 1]>>
            \o BlocksFrom(toks, brace_end + 1)

extract_verus_blocks(toks) == BlocksFrom(toks, 1)

(* remove_comments *)

\* re.sub(r'//.*$', '', content, flags=re.MULTILINE)
RECURSIVE RemoveLineComments(_, _)
RemoveLineComments(toks, i) ==
    IF i > Len(toks) THEN <<>>
    ELSE IF toks[i] = "//" THEN RemoveLineComments(toks, SkipLine(toks, i))
    ELSE <<toks[i]>> \o RemoveLineComments(toks, i + 1)

\* re.sub(r'/\*.*?\*/', '', content, flags=re.DOTALL)
RECURSIVE RemoveBlockComments(_, _)
RemoveBlockComments(toks, i) ==
    IF i > Len(toks) THEN <<>>
    ELSE IF toks[i] = "/*" /\ SkipBlock(toks, i + 1) <= Len(toks)
         THEN RemoveBlockComments(toks, SkipBlock(toks, i + 1) + 1)
    ELSE <<toks[i]>> \o RemoveBlockComments(toks, i + 1)

remove_comments(toks) == RemoveBlockComments(RemoveLineComments(toks, 1), 1)

(* extract_functions_from_block *)

\* ((?:spec|proof|exec|open|uninterp|const)\s+)* from position i: the position
\* after the run and the text of its last repetition ("" when the run is empty)
RECURSIVE SkipModifiers(_, _, _)
SkipModifiers(toks, i, last) ==
    IF TokAt(toks, i) \in Modifiers
    THEN SkipModifiers(toks, SkipNL(toks, i + 1), toks[i])
    ELSE [pos |-> i, keywords |-> last]

\* fn\s+([a-zA-Z_][a-zA-Z0-9_]*)\s*\( at position i: the position of the
\* parenthesis, 0 when the text does not match
FnNameParen(toks, i) ==
    LET name == SkipNL(toks, i + 1)
        paren == SkipNL(toks, name + 1)
    IN IF TokAt(toks, i) = "fn" /\ IsIdent(TokAt(toks, name)) /\ TokAt(toks, paren) = "("
       THEN paren ELSE 0

\* all_fn_pattern tried at position p
all_fn_pattern(toks, p) ==
    LET q == IF TokAt(toks, p) = "pub" THEN SkipNL(toks, p + 1) ELSE p
        run == SkipModifiers(toks, q, "")
        paren == FnNameParen(toks, run.pos)
    IN [matched |-> TokAt(toks, p) # "NL" /\ paren # 0,
        start |-> p,
        end |-> paren,
        keywords |-> run.keywords,
        func_name |-> TokAt(toks, SkipNL(toks, run.pos + 1))]

\* const_fn_pattern tried at position p; the lookahead stands directly before
\* the literal const and so rejects nothing
const_fn_pattern(toks, p) ==
    LET q == IF TokAt(toks, p) = "pub" THEN SkipNL(toks, p + 1) ELSE p
        fn == SkipNL(toks, q + 1)
        paren == FnNameParen(toks, fn)
    IN [matched |-> TokAt(toks, p) # "NL" /\ TokAt(toks, q) = "const"
                    /\ TokAt(toks, q) \notin {"spec", "open", "uninterp"} /\ paren # 0,
        start |-> p,
        end |-> paren,
        func_name |-> TokAt(toks, SkipNL(toks, fn + 1))]

\* all_fn_pattern.finditer(content_no_comments)
RECURSIVE AllFnMatches(_, _)
AllFnMatches(toks, p) ==
    IF p > Len(toks) THEN <<>>
    ELSE LET m == all_fn_pattern(toks, p)
         IN IF m.matched THEN <<m>> \o AllFnMatches(toks, m.end + 1)
            ELSE AllFnMatches(toks, p + 1)

\* self.const_fn_pattern.finditer(content_no_comments)
RECURSIVE ConstFnMatches(_, _)
ConstFnMatches(toks, p) ==
    IF p > Len(toks) THEN <<>>
    ELSE LET m == const_fn_pattern(toks, p)
         IN IF m.matched THEN <<m>> \o ConstFnMatches(toks, m.end + 1)
            ELSE ConstFnMatches(toks, p + 1)

\* line_number = block_start_line + content_no_comments[:match.start()].count('\n') + 1
LineNumber(toks, m, block_start_line) == block_start_line + CountNL(toks, m.start - 1) + 1

\* the first loop: matches without a Verus keyword in group 1
RECURSIVE RegularFunctions(_, _, _)
RegularFunctions(toks, ms, block_start_line) ==
    IF ms = <<>> THEN <<>>
    ELSE (IF Head(ms).keywords \notin VerusKeywords
          THEN <<<<Head(ms).func_name, LineNumber(toks, Head(ms), block_start_line)>>>>
          ELSE <<>>)
         \o RegularFunctions(toks, Tail(ms), block_start_line)

\* the second loop: every const match is appended
RECURSIVE ConstFunctions(_, _, _)
ConstFunctions(toks, ms, block_start_line) ==
    IF ms = <<>> THEN <<>>
    ELSE <<<<Head(ms).func_name, LineNumber(toks, Head(ms), block_start_line)>>>>
         \o ConstFunctions(toks, Tail(ms), block_start_line)

extract_functions_from_block(block_content, block_start_line) ==
    LET content_no_comments == remove_comments(block_content)
    IN RegularFunctions(content_no_comments, AllFnMatches(content_no_comments, 1), block_start_line)
       \o ConstFunctions(content_no_comments, ConstFnMatches(content_no_comments, 1), block_start_line)

(* analyze_file *)

RECURSIVE FunctionsOfBlocks(_)
FunctionsOfBlocks(blocks) ==
    IF blocks = <<>> THEN <<>>
    ELSE extract_functions_from_block(Head(blocks).block_content, Head(blocks).block_start_line)
         \o FunctionsOfBlocks(Tail(blocks))

analyze_file(toks) == FunctionsOfBlocks(extract_verus_blocks(toks))

----------------------------------------------------------------------------
(* Specification SpecScan: RustFunctionFinder.analyze_file on one file      *)

MaxMods == 2
MaxItems == 4
MaxPrefix == 1

\* the sequences over S of length at most n
SeqsUpTo(S, n) == UNION {[1..k -> S] : k \in 0..n}

RECURSIVE Flatten(_)
Flatten(ss) == IF ss = <<>> THEN <<>> ELSE Head(ss) \o Flatten(Tail(ss))

\* k empty lines
LineBreaks(k) == [i \in 1..k |-> "NL"]

FnBody == <<"(", ")", "{", "}">>

\* fn foo() {}            proof fn bar() {}            const fn g() {}
BareFn == <<"fn", "foo">> \o FnBody
ProofFn == <<"proof", "fn", "bar">> \o FnBody
ConstFn == <<"const", "fn", "g">> \o FnBody

\* /* x */     /* x // x */     a block comment over two lines     // fn bar()
BlockComment == <<"/*", "x", "*/">>
BlockCommentWithSlashes == <<"/*", "x", "//", "x", "*/">>
TwoLineComment == <<"/*", "x", "NL", "x", "*/">>
CommentedOutFn == <<"//", "fn", "bar", "(", ")", "NL">>

Items ==
    {<<"NL">>, BareFn, ProofFn, ConstFn,
     BlockComment, BlockCommentWithSlashes, TwoLineComment, CommentedOutFn}

\* one block holding a sequence of items
LayoutFiles ==
    {LineBreaks(k) \o <<"verus!", "{">> \o Flatten(body) \o <<"}">> :
        k \in 0..MaxPrefix, body \in SeqsUpTo(Items, MaxItems)}

\* one block holding one definition of f with any modifiers in any order
ModifierFiles ==
    {LineBreaks(k) \o <<"verus!", "{", "NL">> \o vis \o mods \o <<"fn", "f">> \o FnBody
        \o <<"NL", "}">> :
        k \in 0..MaxPrefix, vis \in {<<>>, <<"pub">>}, mods \in SeqsUpTo(Modifiers, MaxMods)}

InitScan ==
    /\ pc = "input"
    /\ \/ content \in LayoutFiles
       \/ content \in ModifierFiles
    /\ functions = <<>>
    /\ output = <<>>
    /\ exit_code = <<>>
    /\ index = <<>>
    /\ filters = NoFilter
    /\ report = NoReport
    /\ diag = NoDiag
    /\ found = NoFound
    /\ parser = NoParser
    /\ failures = <<>>
    /\ scan = NoScan
    /\ source = NoSource

\* RustFunctionFinder.analyze_file(file_path), the file holding content
AnalyzeFile ==
    /\ pc = "input"
    /\ functions' = analyze_file(content)
    /\ pc' = "scanned"
    /\ UNCHANGED <<output, exit_code, index, filters, report, diag, found, content, parser, failures, scan, source>>

NextScan == AnalyzeFile

SpecScan == InitScan /\ [][NextScan]_vars

----------------------------------------------------------------------------
(* Claims about the function scanner, over the source text as Rust reads it *)

\* position p lies outside every comment, reading the text from position i
RECURSIVE OutsideCommentsFrom(_, _, _)
OutsideCommentsFrom(toks, i, p) ==
    IF i >= p THEN i = p
    ELSE IF toks[i] = "/*" THEN OutsideCommentsFrom(toks, SkipBlock(toks, i + 1) + 1, p)
    ELSE IF toks[i] = "//" THEN OutsideCommentsFrom(toks, SkipLine(toks, i), p)
    ELSE OutsideCommentsFrom(toks, i + 1, p)

\* a function definition has its fn keyword at position p, outside comments
DefinitionAt(toks, p) ==
    /\ toks[p] = "fn"
    /\ FnNameParen(toks, p) # 0
    /\ OutsideCommentsFrom(toks, 1, p)

\* the name that definition defines
NameAt(toks, p) == TokAt(toks, SkipNL(toks, p + 1))

\* the modifiers the definition carries: the run of modifier words ending at position i
RECURSIVE ModifiersUpTo(_, _)
ModifiersUpTo(toks, i) ==
    IF i < 1 THEN {}
    ELSE IF toks[i] = "NL" THEN ModifiersUpTo(toks, i - 1)
    ELSE IF toks[i] \in Modifiers THEN {toks[i]} \cup ModifiersUpTo(toks, i - 1)
    ELSE {}

\* the 1-based line of position p in the file
LineOf(toks, p) == CountNL(toks, p - 1) + 1

RecordedNames == {functions[n][1] : n \in 1..Len(functions)}

\* C8: a function whose definition carries any of spec, proof, exec, open or
\* uninterp is never put into the catalog, whatever other modifiers accompany
\* it and in whatever order.
C8_NoVerusModifierRecorded ==
    pc = "scanned" =>
        \A p \in 1..Len(content) :
            (DefinitionAt(content, p)
             /\ ModifiersUpTo(content, p - 1) \cap VerusKeywords # {})
            => NameAt(content, p) \notin RecordedNames

\* one block holding fn foo() {} and proof fn bar() {} on two lines
ScenarioA == <<"verus!", "{", "NL">> \o BareFn \o <<"NL">> \o ProofFn \o <<"}">>

\* C9: every definition without modifiers inside a well-formed block and
\* outside comments is in the catalog, a definition whose fn follows a
\* verification modifier is not recorded as a bare fn, and the block with
\* fn foo and proof fn bar yields exactly the one record foo.
C9_BareFunctionsRecorded ==
    pc = "scanned" =>
        /\ \A p \in 1..Len(content) :
               (DefinitionAt(content, p) /\ ModifiersUpTo(content, p - 1) = {})
               => NameAt(content, p) \in RecordedNames
        /\ \A p \in 2..Len(content) :
               (DefinitionAt(content, p) /\ TokAt(content, p - 1) \in VerusKeywords)
               => NameAt(content, p) \notin RecordedNames
        /\ content = ScenarioA => Len(functions) = 1 /\ functions[1][1] = "foo"

\* C10: every recorded line is the absolute 1-based line, in the original
\* file, of a definition of the recorded name.
C10_RecordedLineIsAbsolute ==
    pc = "scanned" =>
        \A n \in 1..Len(functions) :
            \E p \in 1..Len(content) :
                /\ DefinitionAt(content, p)
                /\ NameAt(content, p) = functions[n][1]
                /\ LineOf(content, p) = functions[n][2]

\* C11: the function list of a file is ordered by non-decreasing definition
\* line, also when the file mixes fn and const fn definitions.
C11_OrderedByLine ==
    pc = "scanned" =>
        \A i \in 1..Len(functions) : \A j \in i..Len(functions) :
            functions[i][2] <= functions[j][2]

----------------------------------------------------------------------------
(* Specification SpecParse: parse_compilation_output line by line, then     *)
(* parse_verification_failures, on one diagnostic stream                    *)

MaxParseLines == 3

ParseLines ==
    {SummaryLine, CargoLine, ErrorLine, VerifLine, CodedAssertLine, WarnLine, LocLine,
     BarLine, BlankLine, ExitLine1, MemoryLine, ProcessLine, CausedLine, AssertSrcLine}

InitParse ==
    /\ pc = "input"
    /\ output \in SeqsUpTo(ParseLines, MaxParseLines)
    /\ parser = NoParser
    /\ failures = <<>>
    /\ scan = NoScan
    /\ source = NoSource
    /\ exit_code = <<>>
    /\ index = <<>>
    /\ filters = NoFilter
    /\ report = NoReport
    /\ diag = NoDiag
    /\ found = [function |-> NoName, matching_file |-> 0]
    /\ content = <<>>
    /\ functions = <<>>

\* the first pass: has_verification_results is fixed before the main loop starts
StartParse ==
    /\ pc = "input"
    /\ parser' = [st |-> ParserInit, i |-> 1,
                  has_verification_results |-> FirstPassHasResults(output)]
    /\ pc' = "parsing"
    /\ UNCHANGED <<output, exit_code, index, filters, report, diag, found, content, functions, failures, scan, source>>

\* one iteration of the main loop
ParseLine ==
    /\ pc = "parsing"
    /\ parser.i <= Len(output)
    /\ parser' = [parser EXCEPT
                     !.st = parse_line(@, output[parser.i], parser.has_verification_results),
                     !.i = @ + 1]
    /\ UNCHANGED <<pc, output, exit_code, index, filters, report, diag, found, content, functions, failures, scan, source>>

\* after the loop: the records still open are appended and the lists returned
EndParse ==
    /\ pc = "parsing"
    /\ parser.i > Len(output)
    /\ parser' = [parser EXCEPT
                     !.st.errors = @ \o parser.st.current_error,
                     !.st.warnings = @ \o parser.st.current_warning]
    /\ pc' = "parsed"
    /\ UNCHANGED <<output, exit_code, index, filters, report, diag, found, content, functions, failures, scan, source>>

\* VerificationParser.parse_verification_failures on the same stream
ParseFailures ==
    /\ pc = "parsed"
    /\ failures' = parse_verification_failures(output)
    /\ pc' = "done"
    /\ UNCHANGED <<output, exit_code, index, filters, report, diag, found, content, functions, parser, scan, source>>

NextParse == StartParse \/ ParseLine \/ EndParse \/ ParseFailures

SpecParse == InitParse /\ [][NextParse]_vars

----------------------------------------------------------------------------
(* Claims about the diagnostic parsers                                      *)

\* line k of the stream triggers a record of parse_verification_failures
TriggersFailure(k) ==
    \E n \in 1..Len(failures) : failures[n] = Failure(output, k)
        /\ FailureType(strip(output[k])) # "" /\ ContainsError(strip(output[k]))

\* line k of the stream is the header of a returned compilation error
OpensError(k) ==
    \E n \in 1..Len(parser.st.errors) :
        /\ parser.st.errors[n].full_message[1] = strip(output[k])
        /\ error_pattern(strip(output[k]))

\* C12: no line of the stream both opens a CompilationError record and
\* triggers a VerificationFailure record.
C12_NoDoubleCount ==
    pc = "done" =>
        \A k \in 1..Len(output) : ~(OpensError(k) /\ TriggersFailure(k))

\* the record a crate compile-failure line opens
CrateRecord == NewRecord(<<"Compilation failed for crate: ", "foo">>, CargoLine)

\* C13 as stated: a crate compile-failure line with no summary line before it
\* opens a CompilationError that names the crate.
C13_Original ==
    pc = "parsed" =>
        \A k \in 1..Len(output) :
            (output[k] = CargoLine /\ \A j \in 1..(k - 1) : output[j] # SummaryLine)
            => \E n \in 1..Len(parser.st.errors) :
                   /\ parser.st.errors[n].full_message[1] = CargoLine
                   /\ parser.st.errors[n].message[1] = CrateRecord.message[1]

\* C13 as amended: a crate compile-failure line is suppressed exactly when a
\* summary line occurs anywhere in the stream, before or after it; otherwise
\* it closes the open error and opens a new one that names the crate.
C13_SummaryAnywhereSuppresses ==
    [][(pc = "parsing" /\ pc' = "parsing" /\ output[parser.i] = CargoLine) =>
          IF \E j \in 1..Len(output) : output[j] = SummaryLine
          THEN parser'.st = parser.st
          ELSE /\ parser'.st.errors = parser.st.errors \o parser.st.current_error
               /\ parser'.st.current_error = <<CrateRecord>>
               /\ parser'.st.warnings = parser.st.warnings
               /\ parser'.st.current_warning = parser.st.current_warning]_vars

\* a compile-failure line was suppressed by a summary line that comes after it
C13_Witness ==
    /\ pc = "parsed"
    /\ \E k \in 1..Len(output) : \E j \in (k + 1)..Len(output) :
           output[k] = CargoLine /\ output[j] = SummaryLine
    /\ \A n \in 1..Len(parser.st.errors) : parser.st.errors[n].full_message[1] # CargoLine

\* the header lines of the records closed so far and of the one still open
ErrorHeaders(st) ==
    LET recs == st.errors \o st.current_error
    IN [k \in 1..Len(recs) |-> recs[k].full_message[1]]

WarningHeaders(st) ==
    LET recs == st.warnings \o st.current_warning
    IN [k \in 1..Len(recs) |-> recs[k].full_message[1]]

\* C14: every opened error and warning record appears exactly once in the
\* returned lists, in the order of the header lines; a line adds at most its
\* own record after the earlier ones, closed records never change, records
\* still open at the end of the stream are returned, and at most one error and
\* one warning are open at any point.
C14_RecordsExactlyOnce ==
    [][pc = "parsing" =>
          LET st == parser.st
              nx == parser'.st
              line == strip(output[parser.i])
          IN IF pc' = "parsing"
             THEN /\ ErrorHeaders(nx) \in {ErrorHeaders(st), Append(ErrorHeaders(st), line)}
                  /\ WarningHeaders(nx) \in {WarningHeaders(st), Append(WarningHeaders(st), line)}
                  /\ \A k \in 1..Len(st.errors) : nx.errors[k] = st.errors[k]
                  /\ \A k \in 1..Len(st.warnings) : nx.warnings[k] = st.warnings[k]
                  /\ Len(nx.current_error) <= 1
                  /\ Len(nx.current_warning) <= 1
             ELSE /\ nx.errors = st.errors \o st.current_error
                  /\ nx.warnings = st.warnings \o st.current_warning]_vars

\* two errors and a warning are returned, the last error and the warning still
\* open at the end of the stream
C14_Witness ==
    /\ pc = "parsed"
    /\ Len(parser.st.errors) >= 2
    /\ parser.st.current_error # <<>>
    /\ parser.st.current_warning # <<>>

\* the stream before line k and the stream after it
Before(k) == SubSeq(output, 1, k - 1)
After(k) == SubSeq(output, k + 1, Len(output))

HasSummary(lines) == \E j \in 1..Len(lines) : lines[j] = SummaryLine
HasCrateFailure(lines) == \E j \in 1..Len(lines) : lines[j] = CargoLine

\* the lists returned for A, a blank line, then B are the lists for A followed
\* by the lists for B, the stream being split at its blank line k
SplitsAt(k) ==
    LET a == parse_compilation_output(Before(k))
        b == parse_compilation_output(After(k))
    IN /\ parser.st.errors = a.errors \o b.errors
       /\ parser.st.warnings = a.warnings \o b.warnings

\* C15 as stated: for all streams A and B, parsing A, a blank line, then B
\* returns the concatenation of the lists returned for A and for B.
C15_Original ==
    pc = "parsed" => \A k \in 1..Len(output) : output[k] = BlankLine => SplitsAt(k)

\* C15 as amended: the same, provided that a stream containing a crate
\* compile-failure line and no summary line is not joined to a stream that
\* contains a summary line.
C15_ConcatenationUnlessSummaryOneSided ==
    pc = "parsed" =>
        \A k \in 1..Len(output) :
            (/\ output[k] = BlankLine
             /\ ~(HasCrateFailure(Before(k)) /\ ~HasSummary(Before(k)) /\ HasSummary(After(k)))
             /\ ~(HasCrateFailure(After(k)) /\ ~HasSummary(After(k)) /\ HasSummary(Before(k))))
            => SplitsAt(k)

\* a stream A that returns an error, a blank line, and a stream B that
\* returns a warning
C15_Witness ==
    /\ pc = "parsed"
    /\ \E k \in 1..Len(output) :
           /\ output[k] = BlankLine
           /\ parse_compilation_output(Before(k)).errors # <<>>
           /\ parse_compilation_output(After(k)).warnings # <<>>
    /\ parser.st.errors # <<>>
    /\ parser.st.warnings # <<>>

\* the line as it stands in the stream, or with surrounding whitespace removed
AsStored(line, stripped) == IF stripped THEN strip(line) ELSE line

\* the elements m.. of msgs are, in order, lines k.. of the stream
RECURSIVE Embeds(_, _, _, _)
Embeds(msgs, m, k, stripped) ==
    IF m > Len(msgs) THEN TRUE
    ELSE IF k > Len(output) THEN FALSE
    ELSE IF AsStored(output[k], stripped) = msgs[m] THEN Embeds(msgs, m + 1, k + 1, stripped)
    ELSE Embeds(msgs, m, k + 1, stripped)

\* the positions of the lines that trigger a verification failure, in order
TriggerLines ==
    SelectSeq([k \in 1..Len(output) |-> k],
              LAMBDA k : FailureType(strip(output[k])) # "" /\ ContainsError(strip(output[k])))

\* the line without its colour sequences
Uncoloured(line) == IF line = AssertSrcLine THEN "    assert(x > 0);  " ELSE line

\* the line without its colour sequences and without the blanks at its end
UncolouredRight(line) == IF line = AssertSrcLine THEN "    assert(x > 0);" ELSE line

ReturnedRecords == parser.st.errors \o parser.st.warnings

----------------------------------------------------------------------------
(* Specification SpecBlocks: extract_verus_blocks, one loop iteration of    *)
(* extract_verus_blocks or of find_matching_brace per step                  *)

MaxTail == 4

BraceTokens == {"verus!", "{", "}", Quote, Backslash, "/*", "*/", "//", "NL"}

\* a marker with its opening brace, followed by any text
BraceFiles == {<<"verus!", "{">> \o tail : tail \in SeqsUpTo(BraceTokens, MaxTail)}

\* the iteration with the closing i += 1 inside the line-comment branch only
BraceIterationIndentSlip(toks, i, brace_count) ==
    IF toks[i] = "{" THEN [i |-> i, brace_count |-> brace_count + 1, returned |-> 0]
    ELSE IF toks[i] = "}" THEN
        [i |-> i, brace_count |-> brace_count - 1,
         returned |-> IF brace_count - 1 = 0 THEN i ELSE 0]
    ELSE IF toks[i] = Quote
        THEN [i |-> SkipString(toks, i + 1), brace_count |-> brace_count, returned |-> 0]
    ELSE IF toks[i] = "/*"
        THEN [i |-> SkipBlock(toks, i + 1), brace_count |-> brace_count, returned |-> 0]
    ELSE IF toks[i] = "//"
        THEN [i |-> SkipLine(toks, i) + 1, brace_count |-> brace_count, returned |-> 0]
    ELSE [i |-> i, brace_count |-> brace_count, returned |-> 0]

\* one iteration of the while loop of find_matching_brace at position i:
\* the next position and counter, and the position returned (0 when the loop goes on)
BraceIteration(toks, i, brace_count) ==
    IF toks[i] = "{" THEN [i |-> i + 1, brace_count |-> brace_count + 1, returned |-> 0]
    ELSE IF toks[i] = "}" THEN
        IF brace_count - 1 = 0
        THEN [i |-> i, brace_count |-> brace_count - 1, returned |-> i]
        ELSE [i |-> i + 1, brace_count |-> brace_count - 1, returned |-> 0]
    ELSE IF toks[i] = Quote
        THEN [i |-> SkipString(toks, i + 1) + 1, brace_count |-> brace_count, returned |-> 0]
    ELSE IF toks[i] = "/*"
        THEN [i |-> SkipBlock(toks, i + 1) + 1, brace_count |-> brace_count, returned |-> 0]
    ELSE IF toks[i] = "//"
        THEN [i |-> SkipLine(toks, i) + 1, brace_count |-> brace_count, returned |-> 0]
    ELSE [i |-> i + 1, brace_count |-> brace_count, returned |-> 0]

InitBlocks ==
    /\ pc = "input"
    /\ content \in BraceFiles
    /\ scan = NoScan
    /\ source = NoSource
    /\ functions = <<>>
    /\ output = <<>>
    /\ exit_code = <<>>
    /\ index = <<>>
    /\ filters = NoFilter
    /\ report = NoReport
    /\ diag = NoDiag
    /\ found = [function |-> NoName, matching_file |-> 0]
    /\ parser = NoParser
    /\ failures = <<>>

\* blocks = []; start = 0
BeginExtract ==
    /\ pc = "input"
    /\ scan' = [start |-> 1, match |-> 0, i |-> 0, brace_count |-> 0, blocks |-> <<>>]
    /\ pc' = "search"
    /\ UNCHANGED <<output, exit_code, index, filters, report, diag, found, content, functions, parser, failures, source>>

\* the search finds a marker: find_matching_brace is entered at its opening brace
MarkerFound ==
    /\ pc = "search"
    /\ SearchMarker(content, scan.start) # 0
    /\ scan' = [scan EXCEPT !.match = SearchMarker(content, scan.start),
                            !.i = SkipNL(content, SearchMarker(content, scan.start) + 1),
                            !.brace_count = 0]
    /\ pc' = "brace"
    /\ UNCHANGED <<output, exit_code, index, filters, report, diag, found, content, functions, parser, failures, source>>

\* the search finds no marker: break
NoMarker ==
    /\ pc = "search"
    /\ SearchMarker(content, scan.start) = 0
    /\ pc' = "extracted"
    /\ UNCHANGED <<output, exit_code, index, filters, report, diag, found, content, functions, parser, failures, scan, source>>

\* a search that resumes after the marker of the block just found
ResumeAfterMarker(brace_end) == scan.match + 1

\* start = brace_end + 1
ResumeAfter(brace_end) == brace_end + 1

\* one iteration of find_matching_brace; when it returns, the block is appended
\* and the search resumes after the closing brace
BraceStep ==
    /\ pc = "brace"
    /\ scan.i <= Len(content)
    /\ LET r == BraceIteration(content, scan.i, scan.brace_count)
       IN IF r.returned # 0
          THEN /\ scan' = [scan EXCEPT
                              !.i = r.i,
                              !.brace_count = r.brace_count,
                              !.start = ResumeAfter(r.returned),
                              !.blocks = Append(@, [start |-> scan.match, end |-> r.returned,
                                  block_start_line |-> CountNL(content, scan.match - 1) + 1])]
               /\ pc' = "search"
          ELSE /\ scan' = [scan EXCEPT !.i = r.i, !.brace_count = r.brace_count]
               /\ pc' = "brace"
    /\ UNCHANGED <<output, exit_code, index, filters, report, diag, found, content, functions, parser, failures, source>>

\* find_matching_brace returns -1 and the search resumes after the opening brace
BraceUnmatchedResume ==
    /\ pc = "brace"
    /\ scan.i > Len(content)
    /\ scan' = [scan EXCEPT !.start = SkipNL(content, scan.match + 1) + 1]
    /\ pc' = "search"
    /\ UNCHANGED <<output, exit_code, index, filters, report, diag, found, content, functions, parser, failures, source>>

\* find_matching_brace reaches the end of the text and returns -1: break
BraceUnmatched ==
    /\ pc = "brace"
    /\ scan.i > Len(content)
    /\ pc' = "extracted"
    /\ UNCHANGED <<output, exit_code, index, filters, report, diag, found, content, functions, parser, failures, scan, source>>

NextBlocks == BeginExtract \/ MarkerFound \/ NoMarker \/ BraceStep \/ BraceUnmatched

SpecBlocks == InitBlocks /\ [][NextBlocks]_vars

\* the loops are never suspended for ever
SpecBlocksFair == SpecBlocks /\ WF_vars(NextBlocks)

----------------------------------------------------------------------------
(* Claims about the block extractor                                         *)

\* C17: extract_verus_blocks and find_matching_brace terminate on every text:
\* every iteration of the character scan moves the scan position forward,
\* every iteration of the marker loop moves the search start forward, neither
\* position passes the end of the text by more than three, and the extraction
\* is eventually over.
C17_StrictProgress ==
    /\ [][/\ (pc = "brace" /\ pc' = "brace") => scan'.i > scan.i
          /\ (pc = "brace" /\ pc' = "search") => scan'.start > scan.start
          /\ (pc = "search" /\ pc' = "brace") => scan'.i > scan'.match /\ scan'.match >= scan.start
          /\ scan'.i <= Len(content) + 3
          /\ scan'.start <= Len(content) + 1]_vars
    /\ <>(pc = "extracted")

\* the scan ran to the end of the text inside an unterminated string literal
C17_Witness ==
    /\ pc = "extracted"
    /\ scan.blocks = <<>>
    /\ scan.i > Len(content)
    /\ \E k \in 3..Len(content) : content[k] = Quote
    /\ \A k \in 3..Len(content) : content[k] \notin {"/*", "//"}

\* a marker followed by its opening brace stands at position m
IsMarker(m) == content[m] = "verus!" /\ TokAt(content, SkipNL(content, m + 1)) = "{"

\* the braces of the marker at m are balanced before the end of the text
Balanced(m) == find_matching_brace(content, SkipNL(content, m + 1)) # 0

\* position m lies inside the span of a returned block, after its marker
InsideReturned(m) ==
    \E n \in 1..Len(scan.blocks) : scan.blocks[n].start < m /\ m <= scan.blocks[n].end

\* a block is returned for the marker at m
Returned(m) == \E n \in 1..Len(scan.blocks) : scan.blocks[n].start = m

\* the markers outside every returned block whose braces are never balanced
Unbalanced ==
    {u \in 1..Len(content) : IsMarker(u) /\ ~InsideReturned(u) /\ ~Balanced(u)}

RECURSIVE CodeBraces(_, _, _)
CodeBraces(toks, i, mode) ==
    IF i > Len(toks) THEN {}
    ELSE IF mode = "string" THEN
        IF toks[i] = Backslash THEN CodeBraces(toks, i + 2, "string")
        ELSE CodeBraces(toks, i + 1, IF toks[i] = Quote THEN "code" ELSE "string")
    ELSE IF mode = "block" THEN
        CodeBraces(toks, i + 1, IF toks[i] = "*/" THEN "code" ELSE "block")
    ELSE IF mode = "line" THEN
        CodeBraces(toks, i + 1, IF toks[i] = "NL" THEN "code" ELSE "line")
    ELSE IF toks[i] = Quote THEN CodeBraces(toks, i + 1, "string")
    ELSE IF toks[i] = "/*" THEN CodeBraces(toks, i + 1, "block")
    ELSE IF toks[i] = "//" THEN CodeBraces(toks, i + 1, "line")
    ELSE (IF toks[i] \in {"{", "}"} THEN {i} ELSE {}) \cup CodeBraces(toks, i + 1, "code")

\* the opening brace of the marker at position m
OpeningBrace(m) == SkipNL(content, m + 1)

\* the depth after the counted braces from the opening brace b up to position j
DepthUpTo(b, j) ==
    LET counted == {p \in CodeBraces(content, b, "code") : p <= j}
    IN Cardinality({p \in counted : content[p] = "{"})
       - Cardinality({p \in counted : content[p] = "}"})

\* the brace that balances the opening brace b; 0 if there is none
BalancingBrace(b) ==
    LET closing == {j \in CodeBraces(content, b, "code") : DepthUpTo(b, j) = 0}
    IN IF closing = {} THEN 0 ELSE CHOOSE j \in closing : \A k \in closing : j <= k

\* C19: find_matching_brace counts only the braces outside string literals
\* (with backslash escapes), line comments and block comments: at every step
\* the counter is the depth of the counted braces read so far and is at least
\* 1 once the opening brace is read, the scan never passes the balancing
\* brace, it reaches the end of the text only if there is no balancing brace,
\* and the position returned is the balancing brace.
C19_CountsOnlyCodeBraces ==
    /\ pc = "brace" =>
           LET b == OpeningBrace(scan.match)
           IN /\ scan.brace_count = DepthUpTo(b, scan.i - 1)
              /\ scan.i > b => scan.brace_count >= 1
              /\ BalancingBrace(b) # 0 => scan.i <= BalancingBrace(b)
              /\ scan.i > Len(content) => BalancingBrace(b) = 0
    /\ \A n \in DOMAIN scan.blocks :
           /\ scan.blocks[n].end # 0
           /\ scan.blocks[n].end = BalancingBrace(OpeningBrace(scan.blocks[n].start))

\* a block is returned whose span holds a brace inside a string or a comment
C19_Witness ==
    /\ pc = "extracted"
    /\ \E n \in DOMAIN scan.blocks :
           \E p \in (scan.blocks[n].start)..(scan.blocks[n].end) :
               /\ content[p] \in {"{", "}"}
               /\ p \notin CodeBraces(content, OpeningBrace(scan.blocks[n].start), "code")

\* C20: the blocks returned by extract_verus_blocks are pairwise
\* non-overlapping spans in increasing start order, each from a marker to the
\* brace that closes it, and a marker that lies inside the span of a returned
\* block never yields a block of its own.
C20_DisjointTopLevelBlocks ==
    /\ \A n \in DOMAIN scan.blocks :
           /\ IsMarker(scan.blocks[n].start)
           /\ scan.blocks[n].start < scan.blocks[n].end
           /\ content[scan.blocks[n].end] = "}"
    /\ \A n, k \in DOMAIN scan.blocks :
           n < k => scan.blocks[n].end < scan.blocks[k].start
    /\ \A m \in 1..Len(content) : InsideReturned(m) => ~Returned(m)

\* the extraction is over and a marker lies inside the span of a returned block
C20_Witness ==
    /\ pc = "extracted"
    /\ \E m \in 1..Len(content) : IsMarker(m) /\ InsideReturned(m)

----------------------------------------------------------------------------
(* How analyze_output obtains the SourceIndex.  A source is what lies at    *)
(* the path: whether it exists and, per file, the list a scan of its text   *)
(* yields and how the attempt to read it ends: "ok", "undecodable"          *)
(* (UnicodeDecodeError), "denied" (PermissionError) or "error" (any other   *)
(* exception).  The finder is the regex scanner or the verus_syn backend,   *)
(* whose binary is "unavailable", "fails" on the path, or is "ok" and       *)
(* reports the files it can read.  A call returns [raised, value].          *)

\* RustFunctionFinder.analyze_file of find_verus_functions.py: the functions of
\* the file's verus! blocks, [] for a file it cannot decode or may not read
\* (any other exception of the read leaves the call)
ReadAndAnalyze(f) ==
    IF f.read \in {"undecodable", "denied"} THEN <<>> ELSE f.functions

\* find_all_functions that stores the list of every file it analysed
RegexFindAllKeepEmpty(src) ==
    IF ~src.exists THEN [raised |-> FALSE, value |-> <<>>]
    ELSE IF \E k \in 1..Len(src.files) : src.files[k].read = "error"
         THEN [raised |-> TRUE, value |-> <<>>]
    ELSE [raised |-> FALSE,
          value |-> [k \in 1..Len(src.files) |->
                        [file |-> src.files[k].file, functions |-> ReadAndAnalyze(src.files[k])]]]

\* RustFunctionFinder.find_all_functions of find_verus_functions.py: {} for a
\* missing path, the one file of a file path, every *.rs file of a directory;
\* a file whose list is empty gets no key
RegexFindAll(src) ==
    IF ~src.exists THEN [raised |-> FALSE, value |-> <<>>]
    ELSE IF \E k \in 1..Len(src.files) : src.files[k].read = "error"
         THEN [raised |-> TRUE, value |-> <<>>]
    ELSE IF src.is_file
         THEN [raised |-> FALSE,
               value |-> IF ReadAndAnalyze(src.files[1]) # <<>>
                         THEN <<[file |-> src.files[1].file, functions |-> ReadAndAnalyze(src.files[1])]>>
                         ELSE <<>>]
    ELSE [raised |-> FALSE,
          value |-> [k \in 1..Len(SelectSeq(src.files, LAMBDA f : ReadAndAnalyze(f) # <<>>)) |->
                        [file |-> SelectSeq(src.files, LAMBDA f : ReadAndAnalyze(f) # <<>>)[k].file,
                         functions |-> SelectSeq(src.files, LAMBDA f : ReadAndAnalyze(f) # <<>>)[k].functions]]]

\* VerusParser.find_all_functions: the binary's answer, or RuntimeError
BackendFindAll(src) ==
    IF src.backend = "fails" \/ ~src.exists THEN [raised |-> TRUE, value |-> <<>>]
    ELSE [raised |-> FALSE,
          value |-> [k \in 1..Len(SelectSeq(src.files, LAMBDA f : f.read = "ok")) |->
                        [file |-> SelectSeq(src.files, LAMBDA f : f.read = "ok")[k].file,
                         functions |-> SelectSeq(src.files, LAMBDA f : f.read = "ok")[k].functions]]]

\* RustFunctionFinder.find_all_functions of find_verus_functions_syn.py: {} when
\* the parser is None or the call raises
SynFindAll(src) ==
    IF src.backend = "unavailable" THEN [raised |-> FALSE, value |-> <<>>]
    ELSE IF BackendFindAll(src).raised THEN [raised |-> FALSE, value |-> <<>>]
    ELSE BackendFindAll(src)

find_all_functions(src) ==
    IF src.finder = "regex" THEN RegexFindAll(src) ELSE SynFindAll(src)

\* the call of find_all_functions without the try / except around it
IndexNoExcept(r) == r

\* try: all_functions_with_lines = ...find_all_functions(path)
\* except Exception: all_functions_with_lines = {}
IndexOrEmpty(r) ==
    [raised |-> FALSE, value |-> IF r.raised THEN <<>> ELSE r.value]

\* what the caller of analyze_output gets when an exception leaves it
RaisedReport == [status |-> "raised"]

ReadOutcomes == {"ok", "undecodable", "denied", "error"}

\* a missing path; a directory of two files or a single file under the regex
\* scanner, a file with or without functions; the backend in its three states
Sources ==
    {[finder |-> "regex", exists |-> FALSE, is_file |-> FALSE, backend |-> "none", files |-> <<>>],
     [finder |-> "syn", exists |-> FALSE, is_file |-> FALSE, backend |-> "ok", files |-> <<>>]}
    \cup {[finder |-> "regex", exists |-> TRUE, is_file |-> FALSE, backend |-> "none",
           files |-> <<[file |-> SrcMRs, functions |-> fs, read |-> r1],
                       [file |-> SrcLibRs, functions |-> LibFunctions, read |-> r2]>>] :
             fs \in {<<>>, << <<"foo", 10>>, <<"bar", 50>> >>},
             r1 \in ReadOutcomes, r2 \in {"ok", "undecodable"}}
    \cup {[finder |-> "regex", exists |-> TRUE, is_file |-> TRUE, backend |-> "none",
           files |-> <<[file |-> SrcLibRs, functions |-> fs, read |-> r1]>>] :
             fs \in {<<>>, LibFunctions}, r1 \in ReadOutcomes}
    \cup {[finder |-> "syn", exists |-> TRUE, is_file |-> FALSE, backend |-> b,
           files |-> <<[file |-> SrcMRs, functions |-> << <<"foo", 10>>, <<"bar", 50>> >>, read |-> "ok"],
                       [file |-> SrcLibRs, functions |-> LibFunctions, read |-> r2]>>] :
             b \in {"ok", "unavailable", "fails"}, r2 \in {"ok", "undecodable"}}

\* the lines of the output text analysed with a source
PathLines == {SummaryLine, ErrorLine, VerifLine, LocLine, WarnLine, ExitLine0}

\* exit_code: None, zero, two nonzero codes
PathExitCodes == {<<>>, <<0>>, <<1>>, <<101>>}

\* one more line of output is produced by the verification run
AppendPathLine ==
    /\ pc = "input"
    /\ Len(output) < MaxLines
    /\ \E l \in PathLines : output' = Append(output, l)
    /\ UNCHANGED <<pc, exit_code, index, filters, report, diag, found, content, functions, parser, failures, scan, source>>

\* VerusAnalyzer.analyze_output(path, output_content, exit_code=...) on a path
AnalyzePath ==
    /\ pc = "input"
    /\ \E src \in Sources, code \in PathExitCodes :
          LET r == IndexOrEmpty(find_all_functions(src))
          IN /\ source' = src
             /\ exit_code' = code
             /\ index' = r.value
             /\ report' = IF r.raised THEN RaisedReport
                          ELSE analyze_output(r.value, output, code, None, NoName)
    /\ pc' = "analyzed"
    /\ UNCHANGED <<output, filters, diag, found, content, functions, parser, failures, scan>>

NextIndex == AppendPathLine \/ AnalyzePath

SpecIndex == InitAnalyze /\ [][NextIndex]_vars

----------------------------------------------------------------------------
(* Properties of analyze_output that do not depend on the index             *)

\* the exit code is given and is not zero
NonzeroExit == exit_code # <<>> /\ exit_code[1] # 0

\* the output text yields no compilation error and no verification failure
NothingRecognised ==
    /\ parse_compilation_output(output).errors = <<>>
    /\ parse_verification_failures(output) = <<>>

\* C21: for every nonzero exit code N, when the output text has no summary
\* line and yields no compilation error and no verification failure, the
\* status is compilation_failed and compilation.errors holds exactly one
\* record, whose message contains N and whose file, line and column are absent.
C21_SynthesizedError ==
    (pc = "analyzed" /\ NonzeroExit /\ ~SummarySeen /\ NothingRecognised) =>
        /\ report.status = "compilation_failed"
        /\ Len(report.compilation.errors) = 1
        /\ \E k \in 1..Len(report.compilation.errors[1].message) :
               report.compilation.errors[1].message[k] = ToString(exit_code[1])
        /\ report.compilation.errors[1].file = None
        /\ report.compilation.errors[1].line = NoneInt
        /\ report.compilation.errors[1].column = NoneInt
        /\ report.summary.compilation_errors = 1

\* exit code 1 after an output of two or more lines that yields one warning
C21_Witness ==
    /\ pc = "analyzed" /\ exit_code = <<1>> /\ ~SummarySeen /\ NothingRecognised
    /\ Len(output) >= 2
    /\ Len(report.compilation.warnings) = 1
    /\ report.status = "compilation_failed"


\* the files of the source that can be read, as index entries
ReadableEntries ==
    {[file |-> source.files[k].file, functions |-> source.files[k].functions] :
        k \in {j \in 1..Len(source.files) : source.files[j].read = "ok"}}

\* the path is missing, a read ends in an exception that analyze_file does not
\* catch, or the backend is unavailable or fails
IndexingFailed ==
    \/ ~source.exists
    \/ source.finder = "syn" /\ source.backend \in {"unavailable", "fails"}
    \/ source.finder = "regex" /\ \E k \in 1..Len(source.files) : source.files[k].read = "error"

Unfiltered == analyze_output(index, output, exit_code, None, NoName)

\* the name passes the filters given: it is the function filter, and some file
\* matching the module filter defines it
Kept(name) ==
    /\ filters.function = NoName \/ name = filters.function
    /\ filters.module = None
       \/ \E k \in 1..Len(index) :
              /\ ModuleMatches(index[k].file, ReplaceColons(filters.module, 1))
              /\ \E n \in 1..Len(index[k].functions) : index[k].functions[n][1] = name

\* C23: the filters are a post-hoc intersection: the filtered verified, failed
\* and all-function sets are the unfiltered ones restricted to the names that
\* equal the function filter (when given) and are defined in a file matching
\* the module filter (when given); status, compilation errors, warnings,
\* verification errors and functions_by_file are the same with and without
\* filters; with no filter the sets are unchanged.
C23_FiltersArePostHoc ==
    /\ (pc = "analyzed" /\ filters # NoFilter) =>
           LET u == Unfiltered
           IN /\ report.verification.verified_functions
                     = {f \in u.verification.verified_functions : Kept(f)}
              /\ report.verification.failed_functions
                     = {f \in u.verification.failed_functions : Kept(f)}
              /\ report.summary.total_functions
                     = Cardinality({f \in AllFunctionNames(index) : Kept(f)})
              /\ report.status = u.status
              /\ report.compilation = u.compilation
              /\ report.verification.errors = u.verification.errors
              /\ report.functions_by_file = u.functions_by_file
    /\ (pc = "analyzed" /\ filters = NoFilter) =>
           /\ report.summary.total_functions = Cardinality(AllFunctionNames(index))
           /\ \A names \in SUBSET AllFunctionNames(index) :
                  filter_functions_by_module_and_function(index, names, None, NoName) = names

\* a filter is given and takes a failed function out of the report
C23_Witness ==
    /\ pc = "analyzed" /\ filters # NoFilter
    /\ report.verification.failed_functions # Unfiltered.verification.failed_functions
    /\ report.verification.verified_functions # {}

----------------------------------------------------------------------------
(* Further claims about parse_compilation_output                            *)

\* the main loop is about to process a line, and the line is of the given kind
AtLine(kind) ==
    /\ pc = "parsing" /\ parser.i <= Len(output)
    /\ strip(output[parser.i]) \in kind

\* the given record with the location of LocLine stored and the line appended
Located(rec) ==
    [message |-> rec.message, file |-> SrcLibRs, line |-> 42, column |-> 5,
     full_message |-> rec.full_message \o <<"--> src/lib.rs:42:5">>]

\* C24: a file-location line sets file, line and column of, and is appended to
\* the full_message of, the open error if one is open, otherwise the open
\* warning; when both are open only the error changes; when neither is open
\* the line changes no record and no state.
C24_LocationGoesToOpenRecord ==
    [][AtLine({strip(LocLine)}) =>
          /\ parser'.st.errors = parser.st.errors
          /\ parser'.st.warnings = parser.st.warnings
          /\ IF parser.st.current_error # <<>>
             THEN /\ parser'.st.current_error = <<Located(parser.st.current_error[1])>>
                  /\ parser'.st.current_warning = parser.st.current_warning
             ELSE IF parser.st.current_warning # <<>>
             THEN /\ parser'.st.current_warning = <<Located(parser.st.current_warning[1])>>
                  /\ parser'.st.current_error = <<>>
             ELSE parser'.st = parser.st]_vars

\* a location line has been processed while an error and a warning were open
C24_Witness ==
    /\ pc = "parsing" /\ parser.i > 1
    /\ strip(output[parser.i - 1]) = strip(LocLine)
    /\ parser.st.current_error # <<>> /\ parser.st.current_warning # <<>>
    /\ parser.st.current_error[1].file = SrcLibRs
    /\ parser.st.current_warning[1].file = None

\* the lines that can open a record
HeaderLines == {ErrorLine, CodedAssertLine, CargoLine, WarnLine, ExitLine1, ProcessLine}

\* no record is open
NothingOpen == parser.st.current_error = <<>> /\ parser.st.current_warning = <<>>

\* C25: after a blank line has been processed no error and no warning is open:
\* every record that was open before it has been appended to its list, and as
\* long as no later line opens a record nothing is open, so no later location
\* or continuation line is attached to a record opened before the blank line.
C25_BlankLineClosesAll ==
    /\ [][AtLine({""}) =>
             /\ parser'.st.current_error = <<>>
             /\ parser'.st.current_warning = <<>>
             /\ parser'.st.errors = parser.st.errors \o parser.st.current_error
             /\ parser'.st.warnings = parser.st.warnings \o parser.st.current_warning]_vars
    /\ [](pc = "parsing" =>
             \A k \in 1..(parser.i - 1) :
                 (/\ strip(output[k]) = ""
                  /\ \A j \in (k + 1)..(parser.i - 1) : strip(output[j]) \notin HeaderLines)
                 => NothingOpen)

\* a blank line has closed an error, and a location line after it has found
\* nothing open and has left the closed record without a location
C25_Witness ==
    /\ pc = "parsing" /\ parser.i > 2
    /\ strip(output[parser.i - 2]) = ""
    /\ strip(output[parser.i - 1]) = strip(LocLine)
    /\ Len(parser.st.errors) = 1
    /\ parser.st.errors[1].file = None
    /\ NothingOpen

\* a memory-allocation-failure line, an exit-code line, a process-failure line
ProcessLines == {MemoryLine, ExitLine1, strip(ProcessLine)}

\* the error open when line k of the stream is about to be processed
OpenBefore(k) ==
    parse_lines(ParserInit, SubSeq(output, 1, k - 1), 1,
                parser.has_verification_results).current_error

\* sequence s is a proper prefix of sequence t
ProperPrefix(s, t) == Len(s) < Len(t) /\ SubSeq(t, 1, Len(s)) = s

\* C26: while an error is open, a memory-allocation-failure line, an exit-code
\* line or a process-failure line never closes it and never creates another
\* record: the line is appended to the open record's full_message and its
\* message is extended.  When no error is open, the line adds exactly one
\* record, which is in the final errors list exactly once.
C26_ProcessLinesAppendOrOpen ==
    /\ [][AtLine(ProcessLines) =>
             LET st == parser.st
                 nx == parser'.st
                 line == strip(output[parser.i])
             IN /\ nx.warnings = st.warnings /\ nx.current_warning = st.current_warning
                /\ IF st.current_error # <<>>
                   THEN /\ nx.errors = st.errors
                        /\ Len(nx.current_error) = 1
                        /\ nx.current_error[1].full_message
                               = Append(st.current_error[1].full_message, line)
                        /\ ProperPrefix(st.current_error[1].message, nx.current_error[1].message)
                        /\ nx.current_error[1].file = st.current_error[1].file
                        /\ nx.current_error[1].line = st.current_error[1].line
                        /\ nx.current_error[1].column = st.current_error[1].column
                   ELSE /\ Len(nx.errors) + Len(nx.current_error) = Len(st.errors) + 1
                        /\ SubSeq(nx.errors, 1, Len(st.errors)) = st.errors
                        /\ ErrorHeaders(nx) = Append(ErrorHeaders(st), line)
                        /\ (nx.errors \o nx.current_error)[Len(st.errors) + 1].full_message = <<line>>
                        /\ (nx.errors \o nx.current_error)[Len(st.errors) + 1].file = None]_vars
    /\ [](pc = "parsed" =>
             Cardinality({n \in 1..Len(parser.st.errors) :
                             parser.st.errors[n].full_message[1] \in ProcessLines})
                 = Cardinality({k \in 1..Len(output) :
                                   strip(output[k]) \in ProcessLines /\ OpenBefore(k) = <<>>}))

\* an open error has taken a memory line and then a process-failure line
C26_Witness ==
    /\ pc = "parsing" /\ parser.i = 4
    /\ parser.st.errors = <<>>
    /\ parser.st.current_error # <<>>
    /\ Len(parser.st.current_error[1].full_message) = 3
    /\ parser.st.current_error[1].full_message[2] = MemoryLine
    /\ parser.st.current_error[1].full_message[3] = strip(ProcessLine)

\* what the main loop has made of the whole stream when it ends
AtEndOfStream ==
    parse_lines(ParserInit, output, 1, parser.has_verification_results)

\* C27: once a record has been appended to the errors or warnings list, no
\* later line of the stream changes its message, file, line, column or
\* full_message: every step leaves the records already in the lists as they
\* are, and they are returned as they were appended.
C27_AppendedRecordsAreFinal ==
    /\ [][/\ Len(parser'.st.errors) >= Len(parser.st.errors)
          /\ Len(parser'.st.warnings) >= Len(parser.st.warnings)
          /\ \A k \in 1..Len(parser.st.errors) : parser'.st.errors[k] = parser.st.errors[k]
          /\ \A k \in 1..Len(parser.st.warnings) :
                 parser'.st.warnings[k] = parser.st.warnings[k]]_vars
    /\ [](pc = "parsing" =>
             /\ \A k \in 1..Len(parser.st.errors) :
                    (AtEndOfStream.errors \o AtEndOfStream.current_error)[k] = parser.st.errors[k]
             /\ \A k \in 1..Len(parser.st.warnings) :
                    (AtEndOfStream.warnings \o AtEndOfStream.current_warning)[k]
                        = parser.st.warnings[k])

\* an error closed by a blank line is followed by a memory line, which has
\* added a record of its own and left the closed one as it was
C27_Witness ==
    /\ pc = "parsing" /\ parser.i = 4
    /\ Len(parser.st.errors) = 2
    /\ parser.st.errors[1].full_message = <<ErrorLine>>
    /\ parser.st.errors[2].full_message = <<MemoryLine>>
    /\ strip(output[2]) = ""

----------------------------------------------------------------------------
(* parse_verification_failures on streams long enough for its window: a     *)
(* failure header, a gap of excerpt lines, a location line or none, a tail. *)

MaxGap == 15

\* the failure headers
Triggers == {VerifLine, ColouredVerifLine, TwoPhraseLine, CodedAssertLine}

\* what follows the location line: nothing; a blank line right after it; an
\* excerpt line and a blank line followed by the header of another diagnostic,
\* the summary or plain text, and the location of that diagnostic
Tails ==
    {<<>>, <<BlankLine, VerifLine, LocLineLow>>}
    \cup {<<BarLine, BlankLine, next, LocLineLow>> :
             next \in {VerifLine, ErrorLine, WarnLine, NoteLine, SummaryLine, TextLine}}

WindowStreams ==
    {<<t>> \o [k \in 1..n |-> BarLine] \o loc \o tail :
        t \in Triggers, n \in 0..MaxGap, loc \in {<<>>, <<LocLine>>}, tail \in Tails}

InitWindow ==
    /\ pc = "input"
    /\ output \in WindowStreams
    /\ failures = <<>>
    /\ parser = NoParser
    /\ scan = NoScan
    /\ source = NoSource
    /\ exit_code = <<>>
    /\ index = <<>>
    /\ filters = NoFilter
    /\ report = NoReport
    /\ diag = NoDiag
    /\ found = NoFound
    /\ content = <<>>
    /\ functions = <<>>

\* VerificationParser.parse_verification_failures(output_content)
ParseWindow ==
    /\ pc = "input"
    /\ failures' = parse_verification_failures(output)
    /\ pc' = "done"
    /\ UNCHANGED <<output, exit_code, index, filters, report, diag, found, content, functions, parser, scan, source>>

NextWindow == ParseWindow

SpecWindow == InitWindow /\ [][NextWindow]_vars

\* the fixed list of failure phrases, in its order
Phrases ==
    <<"assertion failed", "postcondition not satisfied", "precondition not satisfied",
      "loop invariant not preserved", "loop invariant not satisfied on entry",
      "assertion not satisfied">>

\* the phrases of the list that the line contains
PhrasesIn(line) ==
    CASE line \in {VerifLine, ColouredVerifLine} -> {"postcondition not satisfied"}
      [] line \in {AssertLine, CodedAssertLine} -> {"assertion failed"}
      [] line = TwoPhraseLine -> {"postcondition not satisfied", "assertion failed"}
      [] OTHER -> {}

\* the first phrase of the list that the line contains
FirstPhrase(line) ==
    Phrases[CHOOSE k \in 1..Len(Phrases) :
                /\ Phrases[k] \in PhrasesIn(line)
                /\ \A j \in 1..(k - 1) : Phrases[j] \notin PhrasesIn(line)]

\* the positions of the lines that hold the word error and a known phrase
FailureLines ==
    SelectSeq([k \in 1..Len(output) |-> k],
              LAMBDA k : PhrasesIn(output[k]) # {} /\ ContainsError(strip(output[k])))

\* one record per failure line, in stream order, with the first phrase as its type
OnePerFailureLine ==
    /\ Len(failures) = Len(FailureLines)
    /\ \A n \in 1..Len(failures) :
           failures[n].error_type = FirstPhrase(output[FailureLines[n]])

\* C28 as stated: one record per line that holds the word error and a known
\* phrase, in stream order, also inside the window of an earlier one; the
\* type is the first phrase of the list that the line contains and the
\* message is that line.
C28_Original ==
    pc = "done" =>
        /\ OnePerFailureLine
        /\ \A n \in 1..Len(failures) : failures[n].message = output[FailureLines[n]]

\* the line without the blanks at its ends and without its colour sequences
Plain(line) == IF line = ColouredVerifLine THEN VerifLine ELSE line

\* C28 as amended: one record per such line, in stream order, also inside the
\* window of an earlier one; the type is the first phrase of the list that
\* the line contains and the message is that line without the whitespace at
\* its ends and without its colour sequences.
C28_OneRecordPerFailureLine ==
    pc = "done" =>
        /\ OnePerFailureLine
        /\ \A n \in 1..Len(failures) : failures[n].message = Plain(output[FailureLines[n]])

\* two records, the second for a header inside the window of the first, and
\* the message of the first is not the line as printed
C28_Witness ==
    /\ pc = "done"
    /\ Len(failures) = 2
    /\ FailureLines[2] - FailureLines[1] < WindowLen
    /\ output[1] = ColouredVerifLine
    /\ failures[1].message # output[1]

\* the file, line and column a location line names
LocationOf(line) ==
    IF line = LocLine THEN [file |-> SrcLibRs, line |-> 42, column |-> 5]
    ELSE [file |-> SrcLibRs, line |-> 7, column |-> 1]

\* the location lines among lines from..to of the stream
LocationsIn(from, to) ==
    {j \in from..Min(to, Len(output)) : output[j] \in {LocLine, LocLineLow}}

\* record n holds the location of the first location line among lines
\* from..to, and no location if there is none
LocatedWithin(n, from, to) ==
    IF LocationsIn(from, to) = {}
    THEN failures[n].file = None /\ failures[n].line = NoneInt /\ failures[n].column = NoneInt
    ELSE LET first == CHOOSE j \in LocationsIn(from, to) : \A k \in LocationsIn(from, to) : j <= k
         IN /\ failures[n].file = LocationOf(output[first]).file
            /\ failures[n].line = LocationOf(output[first]).line
            /\ failures[n].column = LocationOf(output[first]).column

\* C29 as stated: the location of a record is that of the first location line
\* among the up to 15 lines that follow the trigger line; a location line
\* exactly 15 lines after the trigger line is inside the window.
C29_Original ==
    pc = "done" =>
        \A n \in 1..Len(failures) :
            LocatedWithin(n, FailureLines[n] + 1, FailureLines[n] + 15)

\* C29 as amended: the window is the trigger line and the up to 14 lines that
\* follow it; the location of a record is that of the first location line in
\* the window, a location line exactly 14 lines after the trigger line is
\* inside it, one 15 lines after is not, and with no location line in the
\* window the record's file, line and column are absent.
C29_FirstLocationInWindow ==
    pc = "done" =>
        \A n \in 1..Len(failures) :
            LocatedWithin(n, FailureLines[n], FailureLines[n] + 14)

\* the only location line stands 15 lines after the trigger line and the
\* record has no location
C29_Witness ==
    /\ pc = "done"
    /\ Len(failures) = 1
    /\ Len(output) = 16 /\ output[16] = LocLine
    /\ LocationsIn(1, 15) = {}
    /\ failures[1].file = None

\* the line starts a new diagnostic (an error, warning or note header) or is
\* the verification-results summary
StartsDiagnostic(line) ==
    line \in {VerifLine, ColouredVerifLine, TwoPhraseLine, AssertLine, CodedAssertLine,
              ErrorLine, CargoLine, WarnLine, NoteLine, SummaryLine}

\* the blank lines of the window of trigger line t that lie at least two lines
\* after its first location line and are followed by the start of a diagnostic
StopLines(t) ==
    IF LocationsIn(t, t + 14) = {} THEN {}
    ELSE LET first == CHOOSE j \in LocationsIn(t, t + 14) : \A k \in LocationsIn(t, t + 14) : j <= k
         IN {b \in (first + 2)..Min(t + 14, Len(output) - 1) :
                output[b] = BlankLine /\ StartsDiagnostic(output[b + 1])}

\* the last line captured for trigger line t: the first stop line, or the end
\* of the window
LastCaptured(t) ==
    IF StopLines(t) = {} THEN Min(t + 14, Len(output))
    ELSE CHOOSE b \in StopLines(t) : \A k \in StopLines(t) : b <= k

\* C30: once the location line has been found, the capture stops at the first
\* blank line that lies at least two lines after it and is followed by a line
\* starting a new diagnostic (an error, warning or note header) or the summary,
\* so full_error_text and assertion_details hold no line of that diagnostic;
\* otherwise the capture runs to the end of the window.
C30_StopsBeforeNextDiagnostic ==
    pc = "done" =>
        \A n \in 1..Len(failures) :
            LET t == FailureLines[n]
                captured == SubSeq(output, t, LastCaptured(t))
            IN /\ failures[n].full_error_text
                      = StripText([k \in 1..Len(captured) |-> clean(captured[k])])
               /\ StopLines(t) # {} =>
                      \A k \in 1..Len(failures[n].assertion_details) :
                          failures[n].assertion_details[k] # strip(LocLineLow)

----------------------------------------------------------------------------
(* The mapping of the regex scanner's find_all_functions                    *)

\* the path is a file that can be read and whose verus! blocks hold a function
YieldsFunctions ==
    /\ source.exists /\ source.is_file
    /\ source.files[1].read = "ok"
    /\ source.files[1].functions # <<>>

\* C31: find_all_functions of the regex scanner maps a single-file input to a
\* one-entry mapping (the file and its functions) when the file yields at
\* least one function and to the empty mapping otherwise, a missing path and
\* a file that cannot be decoded included; no key of a returned mapping, for
\* a file or a directory, has an empty function list.
C31_OneEntryOrEmpty ==
    (pc = "analyzed" /\ source.finder = "regex") =>
        /\ \A k \in 1..Len(index) : index[k].functions # <<>>
        /\ ~source.exists => index = <<>>
        /\ source.is_file =>
               index = IF YieldsFunctions
                       THEN <<[file |-> source.files[1].file, functions |-> source.files[1].functions]>>
                       ELSE <<>>

\* a single readable file without any function has been indexed
C31_Witness ==
    /\ pc = "analyzed" /\ source.finder = "regex"
    /\ source.exists /\ source.is_file
    /\ source.files[1].read = "ok" /\ source.files[1].functions = <<>>
    /\ index = <<>>

----------------------------------------------------------------------------
(* The two versions of parse_compilation_output                             *)

\* the lists the line-by-line run of the syn parser has returned
ReturnedLists ==
    [errors |-> parser.st.errors, warnings |-> parser.st.warnings]

\* C32: for every output text, parse_compilation_output of
\* find_verus_functions_syn.py returns the same errors and warnings lists as
\* parse_compilation_output of find_verus_functions.py.
C32_SameAsOriginal ==
    pc \in {"parsed", "done"} => ReturnedLists = original_parse_compilation_output(output)

----------------------------------------------------------------------------
(* What a report of status success may hold                                 *)

\* C33: whenever analyze_output reports status success, the report holds no
\* VerificationFailure record and failed_functions is empty, for every output
\* text and every exit code.
C33_SuccessHoldsNoFailure ==
    (pc = "analyzed" /\ report.status = "success") =>
        /\ report.verification.errors = <<>>
        /\ report.verification.failed_functions = {}

\* line k of the output is a file-location line of an error-level diagnostic: the
\* nearest header line before it is an error header, not a warning header
BelongsToError(k) ==
    /\ file_location_pattern(output[k])
    /\ \E j \in 1..(k - 1) :
           /\ StartsWithErrorHeader(strip(output[j]))
           /\ \A m \in (j + 1)..(k - 1) : ~warning_pattern(strip(output[m]))

\* C34: a function is in failed_functions only through the location line of an
\* error-level diagnostic; the location line of a warning never makes the
\* function around it failed, even with an error line in the 10 lines before it.
C34_FailedOnlyThroughErrors ==
    (pc = "analyzed" /\ filters = NoFilter) =>
        \A f \in report.verification.failed_functions :
            \E k \in 1..Len(output) :
                /\ BelongsToError(k)
                /\ find_function_at_line(LocFile(output[k]), LocLineNo(output[k]), index) = f

----------------------------------------------------------------------------
(* Location lines after a skipped verification-failure header                *)

\* the line is an error header that parse_compilation_output skips because it
\* holds a verification-failure phrase
SkippedHeader(line) ==
    /\ ~verification_results_pattern(line) /\ ~cargo_error_pattern(line)
    /\ ~memory_error_pattern(line) /\ ~verus_command_exit_pattern(line)
    /\ ~process_error_pattern(line)
    /\ error_pattern(line) /\ verification_error_patterns(line)

\* C35: in parse_compilation_output, a file-location line that follows a skipped
\* error line with a verification-failure phrase never changes the file, line,
\* column or full_message of an error or warning record that an earlier header
\* line opened and that is still open.
C35_LocationAfterSkippedHeader ==
    [][(/\ pc = "parsing" /\ parser.i > 1 /\ parser.i <= Len(output)
        /\ file_location_pattern(strip(output[parser.i]))
        /\ SkippedHeader(strip(output[parser.i - 1])))
       => /\ parser'.st.current_error = parser.st.current_error
          /\ parser'.st.current_warning = parser.st.current_warning]_vars

----------------------------------------------------------------------------
(* How often extract_functions_from_block records a definition              *)

\* C36: each function definition inside a single well-formed verus! block
\* contributes at most one (name, line) record to the list of
\* extract_functions_from_block, for fn and const fn definitions alike: no
\* name has more records than definitions outside comments.
C36_AtMostOneRecordPerDefinition ==
    pc = "scanned" =>
        \A name \in RecordedNames :
            Cardinality({n \in 1..Len(functions) : functions[n][1] = name})
                <= Cardinality({p \in 1..Len(content) :
                                   DefinitionAt(content, p) /\ NameAt(content, p) = name})

----------------------------------------------------------------------------
(* The exit-code line of a run that ended well                              *)

\* the output is not empty and each of its lines reports exit code 0
OnlyExitCodeZero ==
    output # <<>> /\ \A k \in 1..Len(output) : output[k] = ExitLine0

\* C37: a line reporting that the Verus command completed with exit code 0
\* never produces a CompilationError record, and a stream whose only
\* recognizable line reports exit code 0, analysed with exit code zero or
\* absent, yields no compilation error and status success.
C37_ExitCodeZeroIsNoError ==
    pc = "analyzed" =>
        /\ \A k \in 1..Len(report.compilation.errors) :
               report.compilation.errors[k].full_message[1] # ExitLine0
        /\ (OnlyExitCodeZero /\ exit_code \in {<<>>, <<0>>}) =>
               /\ report.compilation.errors = <<>>
               /\ report.status = "success"

----------------------------------------------------------------------------
(* The summary of a report                                                  *)

\* the counts both versions of analyze_output report
CountsMatchLists ==
    /\ report.summary.verified_functions = Cardinality(report.verification.verified_functions)
    /\ report.summary.failed_functions = Cardinality(report.verification.failed_functions)
    /\ report.summary.compilation_errors = Len(report.compilation.errors)
    /\ report.summary.compilation_warnings = Len(report.compilation.warnings)

\* C38: in every report of analyze_output, of either file, each summary count
\* equals the length of the list it summarizes (verified_functions,
\* failed_functions, compilation errors, compilation warnings and, in the syn
\* version, verification errors), and total_functions = verified_functions +
\* failed_functions whenever the status is not compilation_failed.
C38_SummaryCountsLists ==
    /\ pc = "analyzed" =>
           /\ CountsMatchLists
           /\ report.summary.verification_errors = Len(report.verification.errors)
    /\ pc \in {"analyzed", "analyzed_original"} =>
           /\ CountsMatchLists
           /\ report.status # "compilation_failed" =>
                  report.summary.total_functions
                      = report.summary.verified_functions + report.summary.failed_functions

\* a filtered report of a run that compiled, with a verified and a failed
\* function and more failure records than failed functions
C38_Witness ==
    /\ pc = "analyzed" /\ filters # NoFilter
    /\ report.status # "compilation_failed"
    /\ report.verification.verified_functions # {}
    /\ report.verification.failed_functions # {}
    /\ Len(report.verification.errors) > Cardinality(report.verification.failed_functions)

============================================================================
